---- MODULE Spec2Model ----
(***************************************************************************)
(* space-node-client: the cache subsystem (BuiltinCacheProvider,           *)
(* RedisCacheProvider, CacheProviderFactory, CacheModule) and the          *)
(* cache-aware domain operations of ContractModule and FeatureModule.      *)
(*                                                                         *)
(* Strings that the code inspects character by character (cache keys and   *)
(* key patterns) are sequences of tokens: the fixed words of the key       *)
(* shapes ("space-client", "contract", ...) are one token each, the        *)
(* separator ":" and every character of a user id or feature id is a token *)
(* of its own.                                                             *)
(***************************************************************************)
EXTENDS Integers, Sequences, FiniteSets, TLC

VARIABLES
    now,        \* Date.now(), in milliseconds
    cache,      \* BuiltinCacheProvider.cache : Map<string, CacheEntry>
    sweepOn,    \* BuiltinCacheProvider.cleanupInterval is set
    provider,   \* CacheModule.provider : "null" | "builtin" | "redis"
    enabled,    \* CacheModule.enabled
    defaultTtl, \* BuiltinCacheProvider.defaultTtl
    last,       \* the call that returned last: what was called and what it returned
    remoteVersion, \* the SPACE server: how many mutations it has applied
    calls,      \* the domain operations issued through the client, per slot
    currentUser, \* the user id the application passes to the domain operations
    callBackFunctions, \* SpaceClient.callBackFunctions : event name -> callback
    pricingSocketNamespace, \* the '/pricings' socket: active, connected, listeners
    config,     \* RedisCacheProvider.config : the keyPrefix in use
    client,     \* RedisCacheProvider.client : 0 (null) or the id of a store client
    connected,  \* RedisCacheProvider.connected
    clients,    \* every store client created so far: its connection status
    store,      \* the remote key/value store
    ops         \* the RedisCacheProvider operations in progress, per slot

cacheVars == <<now, cache, sweepOn, provider, enabled, defaultTtl, last>>
domainVars == <<remoteVersion, calls, currentUser, callBackFunctions,
                pricingSocketNamespace>>
redisVars == <<config, client, connected, clients, store, ops>>
vars == <<cacheVars, domainVars, redisVars>>

(***************************************************************************)
(* Bounds                                                                  *)
(***************************************************************************)
MaxEntries == 2
MaxNow == 2001

\* JavaScript values that the code passes through the cache are records, so
\* that null and undefined can be told from any of them
Undefined == [undefined |-> TRUE]
Null == [null |-> TRUE]
\* CacheModule.provider when there is none
NullProvider == "null"

\* an optional argument or field: None when omitted, Some(x) when given
None == <<>>
Some(x) == <<x>>

IdChars == {"a", "+"}
UserIds == {<<"a">>, <<"a", "a">>, <<"a", "+">>, <<"+">>, <<"+", "+">>}
FeatureIds == {<<"f">>, <<"g">>}
Values == {[data |-> "v1"], [data |-> "v2"]}

(***************************************************************************)
(* Sequence helpers                                                        *)
(***************************************************************************)
EmptyMap == [k \in {} |-> Null]

\* the '/pricings' socket after the SpaceClient constructor: configureSocket()
\* has attached the listeners and connect() has been requested
NewSocket == [active |-> TRUE, connected |-> FALSE, listeners |-> TRUE]

MapRemove(m, ks) == [k \in (DOMAIN m) \ ks |-> m[k]]

MapPut(m, k, v) == [x \in (DOMAIN m) \cup {k} |-> IF x = k THEN v ELSE m[x]]

\* the first index at which sub occurs in s, or 0
IndexOf(s, sub) ==
    LET hits == {i \in 1..(Len(s) - Len(sub) + 1) :
                    SubSeq(s, i, i + Len(sub) - 1) = sub}
    IN IF hits = {} THEN 0 ELSE CHOOSE i \in hits : \A j \in hits : i <= j

\* String.prototype.replace(sub, ''): removes the first occurrence only
ReplaceFirst(s, sub) ==
    LET i == IndexOf(s, sub)
    IN IF i = 0 THEN s
       ELSE SubSeq(s, 1, i - 1) \o SubSeq(s, i + Len(sub), Len(s))

(***************************************************************************)
(* RegExp: the part of the JavaScript pattern language that the characters *)
(* of the model's keys can spell: a literal, "." (any character), and the  *)
(* quantifiers "*" and "+" on the atom before them. A quantifier with no   *)
(* atom before it is a SyntaxError ("Nothing to repeat").                  *)
(***************************************************************************)
SyntaxError == "SyntaxError"

\* pattern.replace(/\*/g, '.*').replace(/\?/g, '.')
RECURSIVE GlobToRegexSource(_)
GlobToRegexSource(p) ==
    IF p = <<>> THEN <<>>
    ELSE (CASE Head(p) = "*" -> <<".", "*">>
            [] Head(p) = "?" -> <<".">>
            [] OTHER -> <<Head(p)>>) \o GlobToRegexSource(Tail(p))

IsQuantifier(c) == c \in {"*", "+"}

\* new RegExp(source): the sequence of [atom, q] items, or SyntaxError
RECURSIVE RegExpCompile(_)
RegExpCompile(src) ==
    IF src = <<>> THEN <<>>
    ELSE IF IsQuantifier(Head(src)) THEN SyntaxError
    ELSE LET quantified == Len(src) >= 2 /\ IsQuantifier(src[2])
             item == [atom |-> Head(src), q |-> IF quantified THEN src[2] ELSE "1"]
             rest == RegExpCompile(IF quantified THEN Tail(Tail(src)) ELSE Tail(src))
         IN IF rest = SyntaxError THEN SyntaxError ELSE <<item>> \o rest

AtomMatches(atom, c) == atom = "." \/ atom = c

\* the items from i on match the text starting at position j (no anchor at the end)
RECURSIVE MatchHere(_, _, _, _)
MatchHere(items, i, text, j) ==
    IF i > Len(items) THEN TRUE
    ELSE LET it == items[i]
             \* the positions after a run of characters matching the atom
             runs == {k \in j..(Len(text) + 1) :
                         \A x \in j..(k - 1) : AtomMatches(it.atom, text[x])}
         IN CASE it.q = "1" -> /\ j <= Len(text)
                               /\ AtomMatches(it.atom, text[j])
                               /\ MatchHere(items, i + 1, text, j + 1)
              [] it.q = "*" -> \E k \in runs : MatchHere(items, i + 1, text, k)
              [] it.q = "+" -> \E k \in runs \ {j} : MatchHere(items, i + 1, text, k)

\* RegExp.prototype.test without anchors: a match may start anywhere
RegExpTest(items, text) ==
    \E s \in 1..(Len(text) + 1) : MatchHere(items, 1, text, s)

(***************************************************************************)
(* BuiltinCacheProvider                                                    *)
(* Every operation is an operator from the Map (and the clock) to the new  *)
(* Map, the returned value and whether the call threw.                     *)
(***************************************************************************)
MsPerSecond == 1000

\* a call that returned r; raised: an error was raised on the way and caught
Outcome(c, r) == [cache |-> c, ret |-> r, threw |-> FALSE, raised |-> FALSE]

\* a call that threw
Thrown(c) == [cache |-> c, ret |-> Undefined, threw |-> TRUE, raised |-> TRUE]

\* a call whose error was caught and that returned r instead
Caught(c, r) == [cache |-> c, ret |-> r, threw |-> FALSE, raised |-> TRUE]

\* Date.now() > entry.expiresAt
IsExpired(entry, t) == t > entry.expiresAt

BuiltinGet(c, t, key) ==
    IF key \notin DOMAIN c THEN Outcome(c, Null)
    ELSE IF IsExpired(c[key], t) THEN Outcome(MapRemove(c, {key}), Null)
    ELSE Outcome(c, c[key].value)

\* x is a number other than 0 (a number is falsy exactly when it is 0)
TruthyNumber(x) == x # None /\ x[1] # 0

\* ttl || this.defaultTtl
ActualTtl(ttl, dflt) == IF TruthyNumber(ttl) THEN ttl[1] ELSE dflt

BuiltinSet(c, t, dflt, key, value, ttl) ==
    LET actualTtl == ActualTtl(ttl, dflt)
        entry == [value |-> value, createdAt |-> t, ttl |-> actualTtl,
                  expiresAt |-> t + actualTtl * MsPerSecond]
    IN Outcome(MapPut(c, key, entry), Undefined)

\* a delete that rejects a key that is not stored
BuiltinDeleteStrict(c, key) ==
    IF key \in DOMAIN c THEN Outcome(MapRemove(c, {key}), Undefined) ELSE Thrown(c)

BuiltinDelete(c, key) == Outcome(MapRemove(c, {key}), Undefined)

\* a clear that leaves the entries in place
BuiltinClearNothing(c) == Outcome(c, Undefined)

BuiltinClear(c) == Outcome(EmptyMap, Undefined)

BuiltinHas(c, t, key) ==
    IF key \notin DOMAIN c THEN Outcome(c, FALSE)
    ELSE IF IsExpired(c[key], t) THEN Outcome(MapRemove(c, {key}), FALSE)
    ELSE Outcome(c, TRUE)

\* keys(pattern?): an omitted pattern and '' are both falsy, both are <<>> here
BuiltinKeys(c, pattern) ==
    IF pattern = <<>> THEN Outcome(c, DOMAIN c)
    ELSE LET regexPattern == RegExpCompile(GlobToRegexSource(pattern))
         IN IF regexPattern = SyntaxError THEN Thrown(c)
            ELSE Outcome(c, {key \in DOMAIN c : RegExpTest(regexPattern, key)})

\* a close that leaves the entries in the Map
BuiltinCloseKeepsEntries(c) == Outcome(c, Undefined)

BuiltinClose(c) == Outcome(EmptyMap, Undefined)

\* a sweep that deletes one of the expired entries only
cleanupFirstExpired(c, t) ==
    LET keysToDelete == {key \in DOMAIN c : IsExpired(c[key], t)}
    IN IF keysToDelete = {} THEN c
       ELSE MapRemove(c, {CHOOSE key \in keysToDelete : TRUE})

cleanupExpiredEntries(c, t) ==
    MapRemove(c, {key \in DOMAIN c : IsExpired(c[key], t)})

\* statistics that count an entry at its expiry instant as expired
getStatsExpiredAtInstant(c, t) ==
    [total |-> Cardinality(DOMAIN c),
     active |-> Cardinality({key \in DOMAIN c : t < c[key].expiresAt}),
     expired |-> Cardinality({key \in DOMAIN c : t >= c[key].expiresAt})]

getStats(c, t) ==
    [total |-> Cardinality(DOMAIN c),
     active |-> Cardinality({key \in DOMAIN c : ~IsExpired(c[key], t)}),
     expired |-> Cardinality({key \in DOMAIN c : IsExpired(c[key], t)})]

(***************************************************************************)
(* CacheProviderFactory                                                    *)
(* options: [enabled, type, ttl, redis]; type is '' when omitted, ttl and  *)
(* redis (and the numeric fields of redis) are optional.                   *)
(***************************************************************************)
DefaultTtlSeconds == 300

Ok == "ok"

FactoryValidate(options) ==
    IF ~options.enabled THEN Ok
    ELSE IF options.type = "redis" /\ options.redis = None
        THEN "Redis configuration is required when using Redis cache type"
    ELSE IF TruthyNumber(options.ttl) /\ options.ttl[1] <= 0
        THEN "TTL must be a positive number"
    ELSE IF options.type = "redis" /\ options.redis # None THEN
        LET redis == options.redis[1]
        IN IF redis.host = "" THEN "Redis host is required"
           ELSE IF TruthyNumber(redis.port) /\ (redis.port[1] < 1 \/ redis.port[1] > 65535)
               THEN "Redis port must be between 1 and 65535"
           ELSE IF TruthyNumber(redis.db) /\ (redis.db[1] < 0 \/ redis.db[1] > 15)
               THEN "Redis database number must be between 0 and 15"
           ELSE IF TruthyNumber(redis.connectTimeout) /\ redis.connectTimeout[1] <= 0
               THEN "Redis connect timeout must be a positive number"
           ELSE Ok
    ELSE Ok

\* a create that does not default the type
FactoryCreateNoDefault(options) ==
    LET ttl == IF TruthyNumber(options.ttl) THEN options.ttl[1] ELSE DefaultTtlSeconds
    IN IF options.type = "builtin"
       THEN [provider |-> "builtin", ttl |-> ttl, error |-> Ok]
       ELSE [provider |-> NullProvider, ttl |-> ttl, error |-> "Unsupported cache type"]

\* the provider class constructed and its default ttl, or the error thrown
FactoryCreate(options) ==
    LET type == IF options.type # "" THEN options.type ELSE "builtin"
        ttl == IF TruthyNumber(options.ttl) THEN options.ttl[1] ELSE DefaultTtlSeconds
    IN CASE type = "builtin" -> [provider |-> "builtin", ttl |-> ttl, error |-> Ok]
         [] type = "redis" ->
              IF options.redis = None
              THEN [provider |-> NullProvider, ttl |-> ttl,
                    error |-> "Redis configuration is required when using Redis cache type"]
              ELSE [provider |-> "redis", ttl |-> ttl, error |-> Ok]
         [] OTHER -> [provider |-> NullProvider, ttl |-> ttl, error |-> "Unsupported cache type"]

(***************************************************************************)
(* CacheModule                                                             *)
(* The operators read the module's fields (enabled, provider) and the      *)
(* clock from the state and take the provider's Map as an argument, so     *)
(* that a handler that makes several cache calls can chain them. fault     *)
(* says whether the provider's operation raises an error.                  *)
(***************************************************************************)
keyPrefix == <<"space-client", ":">>

getFullKey(key) == keyPrefix \o key

getContractKey(userId) == <<"contract", ":">> \o userId

getFeatureKey(userId, featureName) == <<"feature", ":">> \o userId \o <<":">> \o featureName

getSubscriptionKey(userId) == <<"subscription", ":">> \o userId

getPricingTokenKey(userId) == <<"pricing-token", ":">> \o userId

isEnabled == enabled /\ provider # NullProvider

\* this.provider!.<operation>(...)
ProviderGet(c, key, fault) == IF fault THEN Thrown(c) ELSE BuiltinGet(c, now, key)

ProviderSet(c, key, value, ttl, fault) ==
    IF fault THEN Thrown(c) ELSE BuiltinSet(c, now, defaultTtl, key, value, ttl)

ProviderDelete(c, key, fault) == IF fault THEN Thrown(c) ELSE BuiltinDelete(c, key)

ProviderHas(c, key, fault) == IF fault THEN Thrown(c) ELSE BuiltinHas(c, now, key)

ProviderClear(c, fault) == IF fault THEN Thrown(c) ELSE BuiltinClear(c)

ProviderKeys(c, pattern, fault) == IF fault THEN Thrown(c) ELSE BuiltinKeys(c, pattern)

ProviderClose(c, fault) == IF fault THEN Thrown(c) ELSE BuiltinClose(c)

ModuleGet(c, key, fault) ==
    IF ~isEnabled THEN Outcome(c, Null)
    ELSE LET r == ProviderGet(c, getFullKey(key), fault)
         IN IF r.threw THEN Caught(r.cache, Null) ELSE r

ModuleSet(c, key, value, ttl, fault) ==
    IF ~isEnabled THEN Outcome(c, Undefined)
    ELSE LET r == ProviderSet(c, getFullKey(key), value, ttl, fault)
         IN IF r.threw THEN Caught(r.cache, Undefined) ELSE r

ModuleDelete(c, key, fault) ==
    IF ~isEnabled THEN Outcome(c, Undefined)
    ELSE LET r == ProviderDelete(c, getFullKey(key), fault)
         IN IF r.threw THEN Caught(r.cache, Undefined) ELSE r

ModuleHas(c, key, fault) ==
    IF ~isEnabled THEN Outcome(c, FALSE)
    ELSE LET r == ProviderHas(c, getFullKey(key), fault)
         IN IF r.threw THEN Caught(r.cache, FALSE) ELSE r

ModuleClear(c, fault) ==
    IF ~isEnabled THEN Outcome(c, Undefined)
    ELSE LET r == ProviderClear(c, fault)
         IN IF r.threw THEN Caught(r.cache, Undefined) ELSE r

\* keys() with the provider's error left uncaught
ModuleKeysUncaught(c, pattern, fault) ==
    IF ~isEnabled THEN Outcome(c, {})
    ELSE LET fullPattern == IF pattern # <<>> THEN keyPrefix \o pattern
                            ELSE keyPrefix \o <<"*">>
             r == ProviderKeys(c, fullPattern, fault)
         IN IF r.threw THEN r
            ELSE Outcome(r.cache, {ReplaceFirst(key, keyPrefix) : key \in r.ret})

ModuleKeys(c, pattern, fault) ==
    IF ~isEnabled THEN Outcome(c, {})
    ELSE LET fullPattern == IF pattern # <<>> THEN keyPrefix \o pattern
                            ELSE keyPrefix \o <<"*">>
             r == ProviderKeys(c, fullPattern, fault)
         IN IF r.threw THEN Caught(r.cache, {})
            ELSE Outcome(r.cache, {ReplaceFirst(key, keyPrefix) : key \in r.ret})

\* for (const key of keys) await this.delete(key)
RECURSIVE DeleteEach(_, _, _)
DeleteEach(o, keys, fault) ==
    IF keys = {} THEN o
    ELSE LET key == CHOOSE k \in keys : TRUE
             r == ModuleDelete(o.cache, key, fault)
         IN DeleteEach([r EXCEPT !.raised = o.raised \/ r.raised], keys \ {key}, fault)

\* the patterns of invalidateUser, in the order the loop visits them
InvalidationPatterns(userId) ==
    << <<"contract", ":">> \o userId,
       <<"feature", ":">> \o userId \o <<":", "*">>,
       <<"subscription", ":">> \o userId >>

\* for (const pattern of patterns) { const keys = await this.keys(pattern); ... }
RECURSIVE InvalidateEach(_, _, _, _)
InvalidateEach(o, patterns, keysFault, deleteFault) ==
    IF patterns = <<>> THEN o
    ELSE LET keys == ModuleKeys(o.cache, Head(patterns), keysFault)
             found == [keys EXCEPT !.raised = o.raised \/ keys.raised]
         IN InvalidateEach(DeleteEach(found, keys.ret, deleteFault), Tail(patterns),
                           keysFault, deleteFault)

ModuleInvalidateUser(c, userId, keysFault, deleteFault) ==
    IF ~isEnabled THEN Outcome(c, Undefined)
    ELSE [InvalidateEach(Outcome(c, Undefined), InvalidationPatterns(userId),
                         keysFault, deleteFault) EXCEPT !.ret = Undefined]

\* close(): the provider's close, whose error is caught; the fields are reset
\* by the action
ModuleClose(c, fault) ==
    IF provider = NullProvider THEN Outcome(c, Undefined)
    ELSE LET r == ProviderClose(c, fault)
         IN IF r.threw THEN Caught(r.cache, Undefined) ELSE r

\* initialize(options): the fields afterwards and whether it threw
ModuleInitialize(options) ==
    IF ~options.enabled
    THEN [enabled |-> FALSE, provider |-> provider, created |-> FALSE, threw |-> FALSE,
          ttl |-> defaultTtl]
    ELSE LET made == FactoryCreate(options)
         IN IF FactoryValidate(options) # Ok \/ made.error # Ok
            THEN [enabled |-> enabled, provider |-> provider, created |-> FALSE,
                  threw |-> TRUE, ttl |-> defaultTtl]
            ELSE [enabled |-> TRUE, provider |-> made.provider, created |-> TRUE,
                  threw |-> FALSE, ttl |-> made.ttl]

(***************************************************************************)
(* The callers of the CacheModule: one action per public method. last      *)
(* records the call that has just returned.                                *)
(***************************************************************************)
\* fault: the caller's choice that the provider fails; raised: an error was
\* raised inside the call; on: isEnabled() when the call was made
Call(op, arg, fault, r) ==
    [op |-> op, arg |-> arg, fault |-> fault, ret |-> r.ret, threw |-> r.threw,
     raised |-> r.raised, on |-> isEnabled]

NoCall == [op |-> "new", arg |-> <<>>, fault |-> FALSE, ret |-> Undefined,
           threw |-> FALSE, raised |-> FALSE, on |-> FALSE]

OptDisabled == [enabled |-> FALSE, type |-> "", ttl |-> None, redis |-> None]
OptDefault == [enabled |-> TRUE, type |-> "", ttl |-> None, redis |-> None]
OptBuiltin == [enabled |-> TRUE, type |-> "builtin", ttl |-> Some(300), redis |-> None]
OptBadTtl == [enabled |-> TRUE, type |-> "builtin", ttl |-> Some(-1), redis |-> None]
OptRedisNoConfig == [enabled |-> TRUE, type |-> "redis", ttl |-> None, redis |-> None]
OptUnknownType == [enabled |-> TRUE, type |-> "memcached", ttl |-> None, redis |-> None]

\* cache: { enabled: true, ttl: 30 }
OptShortTtl == [enabled |-> TRUE, type |-> "builtin", ttl |-> Some(30), redis |-> None]

InitializeOptions ==
    {OptDisabled, OptDefault, OptBuiltin, OptBadTtl, OptRedisNoConfig, OptUnknownType}

UserKeys(userId) ==
    {getContractKey(userId), getSubscriptionKey(userId), getPricingTokenKey(userId)}
        \cup {getFeatureKey(userId, f) : f \in FeatureIds}

DomainKeys == UNION {UserKeys(u) : u \in UserIds}

\* a slot in which no domain operation has been issued
IdleCall ==
    [kind |-> "none", featureId |-> <<>>, write |-> FALSE, pc |-> "idle",
     log |-> <<>>, todo |-> <<>>, reply |-> None, result |-> None]

\* a slot in which no RedisCacheProvider operation has been issued
IdleOp ==
    [op |-> "none", key |-> <<>>, value |-> Undefined, ttl |-> None, pc |-> "idle", cl |-> 0,
     attempts |-> 0, found |-> {}, ret |-> None, threw |-> FALSE, cause |-> ""]

Slots == {1, 2}

\* no SpaceClient domain module is in use
NoDomain ==
    /\ remoteVersion = 0
    /\ calls = [s \in Slots |-> IdleCall]
    /\ currentUser = <<>>
    /\ callBackFunctions = EmptyMap
    /\ pricingSocketNamespace = NewSocket

\* no RedisCacheProvider is in use
NoRedis ==
    /\ config = [keyPrefix |-> <<>>]
    /\ client = 0
    /\ connected = FALSE
    /\ clients = <<>>
    /\ store = EmptyMap
    /\ ops = [s \in Slots |-> IdleOp]

CacheModuleInit ==
    /\ now = 0
    /\ cache = EmptyMap
    /\ sweepOn = FALSE
    /\ provider = NullProvider
    /\ enabled = FALSE
    /\ defaultTtl = DefaultTtlSeconds
    /\ last = NoCall
    /\ NoDomain
    /\ NoRedis

CacheInitialize(options) ==
    LET r == ModuleInitialize(options)
    IN /\ enabled' = r.enabled
       /\ provider' = r.provider
       /\ defaultTtl' = r.ttl
       /\ cache' = IF r.created THEN EmptyMap ELSE cache
       /\ sweepOn' = IF r.created THEN TRUE ELSE sweepOn
       /\ last' = Call("initialize", options, FALSE,
                       [ret |-> Undefined, threw |-> r.threw, raised |-> r.threw])
       /\ UNCHANGED <<now, domainVars, redisVars>>

CacheGet(key, fault) ==
    LET r == ModuleGet(cache, key, fault)
    IN /\ cache' = r.cache
       /\ last' = Call("get", key, fault, r)
       /\ UNCHANGED <<now, sweepOn, provider, enabled, defaultTtl, domainVars, redisVars>>

CacheSet(key, value, ttl, fault) ==
    LET r == ModuleSet(cache, key, value, ttl, fault)
    IN /\ Cardinality(DOMAIN r.cache) <= MaxEntries
       /\ cache' = r.cache
       /\ last' = Call("set", key, fault, r)
       /\ UNCHANGED <<now, sweepOn, provider, enabled, defaultTtl, domainVars, redisVars>>

CacheDelete(key, fault) ==
    LET r == ModuleDelete(cache, key, fault)
    IN /\ cache' = r.cache
       /\ last' = Call("delete", key, fault, r)
       /\ UNCHANGED <<now, sweepOn, provider, enabled, defaultTtl, domainVars, redisVars>>

CacheHas(key, fault) ==
    LET r == ModuleHas(cache, key, fault)
    IN /\ cache' = r.cache
       /\ last' = Call("has", key, fault, r)
       /\ UNCHANGED <<now, sweepOn, provider, enabled, defaultTtl, domainVars, redisVars>>

CacheClear(fault) ==
    LET r == ModuleClear(cache, fault)
    IN /\ cache' = r.cache
       /\ last' = Call("clear", <<>>, fault, r)
       /\ UNCHANGED <<now, sweepOn, provider, enabled, defaultTtl, domainVars, redisVars>>

CacheKeys(pattern, fault) ==
    LET r == ModuleKeys(cache, pattern, fault)
    IN /\ cache' = r.cache
       /\ last' = Call("keys", pattern, fault, r)
       /\ UNCHANGED <<now, sweepOn, provider, enabled, defaultTtl, domainVars, redisVars>>

CacheInvalidateUser(userId, keysFault, deleteFault) ==
    LET r == ModuleInvalidateUser(cache, userId, keysFault, deleteFault)
    IN /\ cache' = r.cache
       /\ last' = Call("invalidateUser", userId, keysFault \/ deleteFault, r)
       /\ UNCHANGED <<now, sweepOn, provider, enabled, defaultTtl, domainVars, redisVars>>

\* a close that closes the provider and keeps the module's fields
CacheCloseKeepsFields(fault) ==
    LET r == ModuleClose(cache, fault)
    IN /\ cache' = r.cache
       /\ sweepOn' = IF provider # NullProvider /\ ~fault THEN FALSE ELSE sweepOn
       /\ last' = Call("close", <<>>, fault, r)
       /\ UNCHANGED <<now, provider, enabled, defaultTtl, domainVars, redisVars>>

CacheClose(fault) ==
    LET r == ModuleClose(cache, fault)
    IN /\ cache' = r.cache
       /\ sweepOn' = IF provider # NullProvider /\ ~fault THEN FALSE ELSE sweepOn
       /\ provider' = NullProvider
       /\ enabled' = IF provider # NullProvider THEN FALSE ELSE enabled
       /\ last' = Call("close", <<>>, fault, r)
       /\ UNCHANGED <<now, defaultTtl, domainVars, redisVars>>

\* the keys, users and patterns the callers of SpecCacheModule use
ProbeUsers == {<<"a">>, <<"+", "+">>}
ProbeKeys == {getContractKey(<<"a">>), getFeatureKey(<<"a">>, <<"f">>)}
ProbePatterns == {<<>>, <<"contract", ":", "*">>, <<"feature", ":", "a", ":", "?">>,
                  <<"+", "+">>}

CacheModuleNext ==
    \/ \E options \in InitializeOptions : CacheInitialize(options)
    \/ \E key \in ProbeKeys, fault \in BOOLEAN : CacheGet(key, fault)
    \/ \E key \in ProbeKeys, value \in Values, fault \in BOOLEAN :
          CacheSet(key, value, None, fault)
    \/ \E key \in ProbeKeys, fault \in BOOLEAN : CacheDelete(key, fault)
    \/ \E key \in ProbeKeys, fault \in BOOLEAN : CacheHas(key, fault)
    \/ \E fault \in BOOLEAN : CacheClear(fault)
    \/ \E pattern \in ProbePatterns, fault \in BOOLEAN : CacheKeys(pattern, fault)
    \/ \E userId \in ProbeUsers, keysFault \in BOOLEAN, deleteFault \in BOOLEAN :
          CacheInvalidateUser(userId, keysFault, deleteFault)
    \/ \E fault \in BOOLEAN : CacheClose(fault)

SpecCacheModule == CacheModuleInit /\ [][CacheModuleNext]_vars

(***************************************************************************)
(* invalidateUser on an enabled cache over the in-process provider, among  *)
(* the entries of several users. No provider operation raises an error.    *)
(***************************************************************************)
InvalidateNext ==
    \/ CacheInitialize(OptDefault)
    \/ \E key \in DomainKeys, value \in Values : CacheSet(key, value, None, FALSE)
    \/ \E userId \in UserIds : CacheInvalidateUser(userId, FALSE, FALSE)

SpecInvalidate == CacheModuleInit /\ [][InvalidateNext]_vars

(***************************************************************************)
(* The in-process provider on its own, with the clock. Time advances to    *)
(* the instants around the expiry of a stored entry (one millisecond       *)
(* before, the expiry instant itself, one millisecond after) or by one     *)
(* second. The interval timer may fire at any instant while it is set.     *)
(***************************************************************************)
StoreKeys == {<<"k", "1">>, <<"k", "2">>}
StorePatterns == {<<>>, <<"k", "*">>, <<"k", "?">>, <<"1">>}
StoreTtls == {None, Some(1), Some(0)}
StoreDefaultTtl == 2

BuiltinCall(op, arg, r) ==
    [op |-> op, arg |-> arg, fault |-> FALSE, ret |-> r.ret, threw |-> r.threw,
     raised |-> r.raised, on |-> TRUE]

\* new BuiltinCacheProvider(defaultTtl)
BuiltinInit ==
    /\ now = 0
    /\ cache = EmptyMap
    /\ sweepOn = TRUE
    /\ provider = NullProvider
    /\ enabled = FALSE
    /\ defaultTtl = StoreDefaultTtl
    /\ last = NoCall
    /\ NoDomain
    /\ NoRedis

StoreGet(key) ==
    LET r == BuiltinGet(cache, now, key)
    IN /\ cache' = r.cache
       /\ last' = BuiltinCall("builtin.get", key, r)
       /\ UNCHANGED <<now, sweepOn, provider, enabled, defaultTtl, domainVars, redisVars>>

StoreSet(key, value, ttl) ==
    LET r == BuiltinSet(cache, now, defaultTtl, key, value, ttl)
    IN /\ Cardinality(DOMAIN r.cache) <= MaxEntries
       /\ cache' = r.cache
       /\ last' = BuiltinCall("builtin.set", key, r) @@ [ttl |-> ttl]
       /\ UNCHANGED <<now, sweepOn, provider, enabled, defaultTtl, domainVars, redisVars>>

StoreDelete(key) ==
    LET r == BuiltinDelete(cache, key)
    IN /\ cache' = r.cache
       /\ last' = BuiltinCall("builtin.delete", key, r)
       /\ UNCHANGED <<now, sweepOn, provider, enabled, defaultTtl, domainVars, redisVars>>

StoreClear ==
    LET r == BuiltinClear(cache)
    IN /\ cache' = r.cache
       /\ last' = BuiltinCall("builtin.clear", <<>>, r)
       /\ UNCHANGED <<now, sweepOn, provider, enabled, defaultTtl, domainVars, redisVars>>

StoreHas(key) ==
    LET r == BuiltinHas(cache, now, key)
    IN /\ cache' = r.cache
       /\ last' = BuiltinCall("builtin.has", key, r)
       /\ UNCHANGED <<now, sweepOn, provider, enabled, defaultTtl, domainVars, redisVars>>

StoreKeysCall(pattern) ==
    LET r == BuiltinKeys(cache, pattern)
    IN /\ cache' = r.cache
       /\ last' = BuiltinCall("builtin.keys", pattern, r)
       /\ UNCHANGED <<now, sweepOn, provider, enabled, defaultTtl, domainVars, redisVars>>

StoreClose ==
    LET r == BuiltinClose(cache)
    IN /\ cache' = r.cache
       /\ sweepOn' = FALSE
       /\ last' = BuiltinCall("builtin.close", <<>>, r)
                      @@ [cleanupInterval |-> sweepOn]
       /\ UNCHANGED <<now, provider, enabled, defaultTtl, domainVars, redisVars>>

StoreGetStats ==
    /\ last' = BuiltinCall("builtin.getStats", <<>>, Outcome(cache, getStats(cache, now)))
    /\ UNCHANGED <<now, cache, sweepOn, provider, enabled, defaultTtl, domainVars, redisVars>>

\* the callback of setInterval
StoreSweep ==
    /\ sweepOn
    /\ cache' = cleanupExpiredEntries(cache, now)
    /\ last' = BuiltinCall("builtin.sweep", <<>>, Outcome(cache, Undefined))
                   @@ [keysToDelete |-> {key \in DOMAIN cache : IsExpired(cache[key], now)}]
    /\ UNCHANGED <<now, sweepOn, provider, enabled, defaultTtl, domainVars, redisVars>>

Instants ==
    {cache[key].expiresAt + d : key \in DOMAIN cache, d \in {-1, 0, 1}}
        \cup {now + MsPerSecond}

Tick(t) ==
    /\ t > now
    /\ t <= MaxNow
    /\ now' = t
    /\ UNCHANGED <<cache, sweepOn, provider, enabled, defaultTtl, last, domainVars, redisVars>>

BuiltinNext ==
    \/ \E key \in StoreKeys : StoreGet(key)
    \/ \E key \in StoreKeys, value \in Values, ttl \in StoreTtls : StoreSet(key, value, ttl)
    \/ \E key \in StoreKeys : StoreDelete(key)
    \/ StoreClear
    \/ \E key \in StoreKeys : StoreHas(key)
    \/ \E pattern \in StorePatterns : StoreKeysCall(pattern)
    \/ StoreClose
    \/ StoreGetStats
    \/ StoreSweep
    \/ \E t \in Instants : Tick(t)

SpecBuiltin == BuiltinInit /\ [][BuiltinNext]_vars

(***************************************************************************)
(* The cache-aware domain operations of ContractModule and FeatureModule,  *)
(* through a client constructed with a cache configuration. A domain       *)
(* operation runs in steps: its synchronous prefix up to the HTTP request  *)
(* (DomainStart), the server's answer (ServerReply), the then handler of   *)
(* the request up to its first awaited cache call (DomainThen), each later *)
(* awaited cache call (DomainCacheCall), or the catch handler              *)
(* (DomainCatch). The call's log lists the CacheModule methods it has      *)
(* called so far.                                                          *)
(***************************************************************************)
MaxVersion == 2
DomainUsers == {<<"a">>, <<"a", "+">>}
DomainFeatures == {<<"f">>}
FeatureTtlSeconds == 60

DomainKinds ==
    {"getContract", "addContract", "updateContractSubscription", "evaluate",
     "revertEvaluation", "generateUserPricingToken"}

\* the Contract, FeatureEvaluationResult and pricing token the server returns
\* for a user once it has applied n mutations
ContractAt(u, n) == [userContact |-> [userId |-> u], version |-> n]
EvaluationAt(u, f, n) == [eval |-> TRUE, featureId |-> f, version |-> n]
TokenAt(u, n) == [jwt |-> u, version |-> n]

\* obj[field] in JavaScript: undefined (None) when obj has no such property
Property(obj, field) == IF field \in DOMAIN obj THEN Some(obj[field]) ELSE None

\* truthiness of an optional string
TruthyString(opt) == opt # None /\ opt[1] # <<>>

\* the request changes the server's state
Mutating(kind, consumption) ==
    \/ kind \in {"addContract", "updateContractSubscription", "revertEvaluation"}
    \/ kind = "evaluate" /\ consumption

\* response.data of a successful request
ResponseData(kind, u, f, n) ==
    CASE kind \in {"getContract", "addContract", "updateContractSubscription"} ->
             ContractAt(u, n)
      [] kind = "evaluate" -> EvaluationAt(u, f, n)
      [] kind = "generateUserPricingToken" -> [pricingToken |-> TokenAt(u, n)]
      [] OTHER -> [reverted |-> TRUE]

\* one awaited CacheModule call of a then handler
SetCall(key, value, ttl) ==
    [call |-> "set", key |-> key, value |-> value, ttl |-> ttl, userId |-> <<>>]
DeleteCall(key) ==
    [call |-> "delete", key |-> key, value |-> Undefined, ttl |-> None, userId |-> <<>>]
InvalidateUserCall(userId) ==
    [call |-> "invalidateUser", key |-> <<>>, value |-> Undefined, ttl |-> None,
     userId |-> userId]

\* a then handler that stores the contract with the feature ttl
getContractThenFeatureTtl(userId, contract) ==
    IF isEnabled
    THEN <<SetCall(getContractKey(userId), contract, Some(FeatureTtlSeconds))>>
    ELSE <<>>

\* the cache calls of each then handler, in the order the handler awaits them
getContractThen(userId, contract) ==
    IF isEnabled THEN <<SetCall(getContractKey(userId), contract, None)>> ELSE <<>>

addContractThen(contract) ==
    LET userId == Property(contract, "userId")
    IN IF isEnabled /\ TruthyString(userId)
       THEN <<InvalidateUserCall(userId[1]),
              SetCall(getContractKey(userId[1]), contract, None)>>
       ELSE <<>>

updateContractSubscriptionThen(userId, contract) ==
    IF isEnabled
    THEN <<InvalidateUserCall(userId), SetCall(getContractKey(userId), contract, None)>>
    ELSE <<>>

evaluateThen(userId, featureId, isReadOnlyEvaluation, result) ==
    IF isReadOnlyEvaluation /\ isEnabled
    THEN <<SetCall(getFeatureKey(userId, featureId), result, Some(FeatureTtlSeconds))>>
    ELSE IF isEnabled
         THEN <<DeleteCall(getFeatureKey(userId, featureId)),
                DeleteCall(getContractKey(userId))>>
         ELSE <<>>

revertEvaluationThen(userId, featureId) ==
    IF isEnabled
    THEN <<DeleteCall(getFeatureKey(userId, featureId)), DeleteCall(getContractKey(userId))>>
    ELSE <<>>

generateUserPricingTokenThen == <<>>

ThenCalls(call, userId, data) ==
    CASE call.kind = "getContract" -> getContractThen(userId, data)
      [] call.kind = "addContract" -> addContractThen(data)
      [] call.kind = "updateContractSubscription" ->
             updateContractSubscriptionThen(userId, data)
      [] call.kind = "evaluate" ->
             evaluateThen(userId, call.featureId, ~call.write, data)
      [] call.kind = "revertEvaluation" -> revertEvaluationThen(userId, call.featureId)
      [] OTHER -> generateUserPricingTokenThen

\* the value the then handler returns
ThenReturns(kind, data) ==
    CASE kind = "revertEvaluation" -> [true |-> TRUE]
      [] kind = "generateUserPricingToken" -> data.pricingToken
      [] OTHER -> data

\* the error the catch handler leaves the operation with: the handlers read
\* error.response.data before rethrowing, generateUserPricingToken rethrows
\* from a finally block
CatchThrows(kind, status) ==
    IF kind = "generateUserPricingToken" THEN status
    ELSE IF status = "network" THEN "TypeError"
    ELSE status

Returned(value) == Some([threw |-> FALSE, value |-> value, error |-> ""])
Threw(error) == Some([threw |-> TRUE, value |-> Undefined, error |-> error])

\* await cache.<call>(...)
RunCacheCall(c, instr) ==
    CASE instr.call = "set" -> ModuleSet(c, instr.key, instr.value, instr.ttl, FALSE)
      [] instr.call = "delete" -> ModuleDelete(c, instr.key, FALSE)
      [] OTHER -> ModuleInvalidateUser(c, instr.userId, FALSE, FALSE)

\* new SpaceClient({url, apiKey, cache: options}): the CacheModule is
\* initialized with the given configuration
DomainInit ==
    \E options \in {OptDisabled, OptDefault, OptShortTtl}, u \in DomainUsers :
        /\ now = 0
        /\ cache = EmptyMap
        /\ sweepOn = options.enabled
        /\ enabled = options.enabled
        /\ provider = IF options.enabled THEN FactoryCreate(options).provider
                      ELSE NullProvider
        /\ defaultTtl = FactoryCreate(options).ttl
        /\ last = NoCall
        /\ remoteVersion = 0
        /\ calls = [s \in Slots |-> IdleCall]
        /\ currentUser = u
        /\ callBackFunctions = EmptyMap
        /\ pricingSocketNamespace = NewSocket
        /\ NoRedis

\* the operation is called: getContract and a read-only evaluate look the key
\* up in the cache and return on a hit; otherwise the request is sent
DomainStart(s, kind, featureId, consumption) ==
    /\ calls[s].pc \in {"idle", "returned", "threw"}
    /\ Mutating(kind, consumption) => remoteVersion < MaxVersion
    /\ LET lookup == /\ isEnabled
                     /\ \/ kind = "getContract"
                        \/ kind = "evaluate" /\ ~consumption
           cacheKey == IF kind = "getContract" THEN getContractKey(currentUser)
                       ELSE getFeatureKey(currentUser, featureId)
           r == ModuleGet(cache, cacheKey, FALSE)
           hit == lookup /\ r.ret # Null
       IN /\ cache' = IF lookup THEN r.cache ELSE cache
          /\ calls' = [calls EXCEPT ![s] =
                [kind |-> kind, featureId |-> featureId, write |-> consumption,
                 pc |-> IF hit THEN "returned" ELSE "requested",
                 log |-> IF lookup THEN <<"get">> ELSE <<>>,
                 todo |-> <<>>, reply |-> None,
                 result |-> IF hit THEN Returned(r.ret) ELSE None]]
    /\ UNCHANGED <<now, sweepOn, provider, enabled, defaultTtl, last,
                   remoteVersion, currentUser, callBackFunctions,
                   pricingSocketNamespace, redisVars>>

ReplyStatuses == {"ok", "http", "network"}

\* the request completes: the server applies it and answers ("ok"), answers
\* with an error status ("http"), or no answer arrives ("network")
ServerReply(s, status) ==
    /\ calls[s].pc = "requested"
    /\ LET call == calls[s]
           n == IF status = "ok" /\ Mutating(call.kind, call.write)
                THEN remoteVersion + 1 ELSE remoteVersion
           data == IF status = "ok"
                   THEN ResponseData(call.kind, currentUser, call.featureId, n)
                   ELSE Undefined
       IN /\ remoteVersion' = n
          /\ calls' = [calls EXCEPT ![s].pc = "replied",
                                    ![s].reply = Some([status |-> status, data |-> data])]
    /\ UNCHANGED <<cacheVars, currentUser, callBackFunctions,
                   pricingSocketNamespace, redisVars>>

\* runs the next awaited cache call of the then handler of slot s; the handler
\* returns after its last one
Await(s, todo, data) ==
    LET result == Returned(ThenReturns(calls[s].kind, data))
    IN IF todo = <<>>
       THEN /\ calls' = [calls EXCEPT ![s].pc = "returned", ![s].result = result]
            /\ UNCHANGED cache
       ELSE LET r == RunCacheCall(cache, Head(todo))
                done == Tail(todo) = <<>>
            IN /\ cache' = r.cache
               /\ calls' = [calls EXCEPT
                      ![s].pc = IF done THEN "returned" ELSE "then",
                      ![s].todo = Tail(todo),
                      ![s].log = Append(calls[s].log, Head(todo).call),
                      ![s].result = IF done THEN result ELSE None]

\* .then(async response => ...): the handler runs up to its first await
DomainThen(s) ==
    /\ calls[s].pc = "replied"
    /\ calls[s].reply[1].status = "ok"
    /\ LET data == calls[s].reply[1].data
       IN Await(s, ThenCalls(calls[s], currentUser, data), data)
    /\ UNCHANGED <<now, sweepOn, provider, enabled, defaultTtl, last,
                   remoteVersion, currentUser, callBackFunctions,
                   pricingSocketNamespace, redisVars>>

\* the then handler resumes after an awaited cache call
DomainCacheCall(s) ==
    /\ calls[s].pc = "then"
    /\ Await(s, calls[s].todo, calls[s].reply[1].data)
    /\ UNCHANGED <<now, sweepOn, provider, enabled, defaultTtl, last,
                   remoteVersion, currentUser, callBackFunctions,
                   pricingSocketNamespace, redisVars>>

\* a catch handler that drops the user's cached contract before rethrowing
DomainCatchInvalidating(s) ==
    /\ calls[s].pc = "replied"
    /\ calls[s].reply[1].status # "ok"
    /\ cache' = ModuleDelete(cache, getContractKey(currentUser), FALSE).cache
    /\ calls' = [calls EXCEPT ![s].pc = "threw",
                    ![s].log = Append(calls[s].log, "delete"),
                    ![s].result = Threw(CatchThrows(calls[s].kind, calls[s].reply[1].status))]
    /\ UNCHANGED <<now, sweepOn, provider, enabled, defaultTtl, last,
                   remoteVersion, currentUser, callBackFunctions,
                   pricingSocketNamespace, redisVars>>

\* .catch(error => ...)
DomainCatch(s) ==
    /\ calls[s].pc = "replied"
    /\ calls[s].reply[1].status # "ok"
    /\ calls' = [calls EXCEPT ![s].pc = "threw",
                    ![s].result = Threw(CatchThrows(calls[s].kind, calls[s].reply[1].status))]
    /\ UNCHANGED <<cacheVars, remoteVersion, currentUser, callBackFunctions,
                   pricingSocketNamespace, redisVars>>

\* the application keeps the pricing token it was given, and the user's
\* subscription, in the client's cache (client.getCache().set)
AppCachesToken(s) ==
    /\ calls[s].kind = "generateUserPricingToken"
    /\ calls[s].pc = "returned"
    /\ cache' = ModuleSet(cache, getPricingTokenKey(currentUser),
                          calls[s].result[1].value, None, FALSE).cache
    /\ UNCHANGED <<now, sweepOn, provider, enabled, defaultTtl, last, domainVars, redisVars>>

AppCachesSubscription ==
    /\ \A s \in Slots : calls[s].pc \in {"idle", "returned", "threw"}
    /\ cache' = ModuleSet(cache, getSubscriptionKey(currentUser),
                          [plan |-> "basic"], None, FALSE).cache
    /\ UNCHANGED <<now, sweepOn, provider, enabled, defaultTtl, last, domainVars, redisVars>>

\* time passes between two turns of the event loop: every entry stored so far
\* has outlived its ttl
DomainLate == DefaultTtlSeconds * MsPerSecond + 1

Elapse ==
    /\ now < DomainLate
    /\ \A s \in Slots : calls[s].pc # "then"
    /\ now' = DomainLate
    /\ UNCHANGED <<cache, sweepOn, provider, enabled, defaultTtl, last, domainVars, redisVars>>

\* the domain operations issued one at a time (slot 1)
DomainNext ==
    \/ \E kind \in DomainKinds, f \in DomainFeatures, consumption \in BOOLEAN :
          /\ consumption => kind = "evaluate"
          /\ DomainStart(1, kind, f, consumption)
    \/ \E status \in ReplyStatuses : ServerReply(1, status)
    \/ DomainThen(1)
    \/ DomainCacheCall(1)
    \/ DomainCatch(1)
    \/ AppCachesToken(1)
    \/ AppCachesSubscription
    \/ Elapse

SpecDomain == DomainInit /\ [][DomainNext]_vars

(***************************************************************************)
(* RedisCacheProvider. The provider's fields are client and connected;     *)
(* clients lists every store client created by connect(), with the state   *)
(* of its connection; store is the shared key/value store. An operation    *)
(* runs in steps: its synchronous prefix (RedisStart), the settling of the *)
(* connection it awaits (ClientConnected, ClientFails, ConnectTimeout) and *)
(* the settling of each store command it awaits (CommandReplies,           *)
(* CommandFails, DelReplies, QuitReplies, QuitFails).                      *)
(***************************************************************************)
MaxClients == 2
RetryCap == 3
RetryStepMs == 200
RetryCeilingMs == 2000

RedisOperations == {"get", "set", "delete", "clear", "has", "keys", "close", "ping", "getStats"}
RedisKeys == {<<"k">>}
RedisPatterns == {<<>>, <<"*">>}
RedisTtls == {None, Some(0), Some(-1)}

\* config.keyPrefix (the default) and a key of another user of the store
configKeyPrefix == <<"space-client", ":">>
ForeignKey == <<"other", ":", "k">>

\* keyPrefix: config.keyPrefix || 'space-client:'
RedisConfig(prefix) ==
    [keyPrefix |-> IF prefix # <<>> THEN prefix ELSE configKeyPrefix]

\* getKey(key)
getKey(key) == config.keyPrefix \o key

\* JSON.stringify(value) and a stored text that JSON.parse rejects
Serialize(value) == <<"json", value>>
Garbage == <<"{not json">>
Parses(text) == Head(text) = "json"
Deserialize(text) == text[2]

\* the position of the "]" that closes the class opened at p[i] (past the
\* end of the pattern when there is none)
ClassEnd(p, i) ==
    LET closing == {m \in (i + 1)..Len(p) : p[m] = "]"}
    IN IF closing = {} THEN Len(p) + 1
       ELSE CHOOSE m \in closing : \A n \in closing : m <= n

\* the store's own matching of KEYS patterns: the whole key, "*" any run,
\* "?" one character, "[...]" one of the characters listed
RECURSIVE StoreGlob(_, _, _, _)
StoreGlob(p, i, text, j) ==
    IF i > Len(p) THEN j > Len(text)
    ELSE CASE p[i] = "*" -> \E k \in j..(Len(text) + 1) : StoreGlob(p, i + 1, text, k)
           [] p[i] = "?" -> j <= Len(text) /\ StoreGlob(p, i + 1, text, j + 1)
           [] p[i] = "[" ->
                 /\ j <= Len(text)
                 /\ text[j] \in {p[m] : m \in (i + 1)..(ClassEnd(p, i) - 1)}
                 /\ StoreGlob(p, ClassEnd(p, i) + 1, text, j + 1)
           [] OTHER -> j <= Len(text) /\ text[j] = p[i] /\ StoreGlob(p, i + 1, text, j + 1)

StoreKeysMatching(st, p) == {k \in DOMAIN st : StoreGlob(p, 1, k, 1)}

\* a strategy that allows one more attempt before it stops
reconnectStrategyOneMore(retries) ==
    IF retries > RetryCap + 1 THEN [again |-> FALSE, delay |-> 0]
    ELSE [again |-> TRUE,
          delay |-> IF retries * RetryStepMs < RetryCeilingMs
                    THEN retries * RetryStepMs ELSE RetryCeilingMs]

\* reconnectStrategy(retries): false (stop) or the delay before the next attempt
reconnectStrategy(retries) ==
    IF retries > RetryCap THEN [again |-> FALSE, delay |-> 0]
    ELSE [again |-> TRUE,
          delay |-> IF retries * RetryStepMs < RetryCeilingMs
                    THEN retries * RetryStepMs ELSE RetryCeilingMs]

\* createClient(...): the client before client.connect() has settled
NewClient == [status |-> "connecting", retries |-> 0, delay |-> 0]

\* a boolean and a list of keys among the values an operation returns
JsBoolean(b) == [boolean |-> b]
JsArray(elements) == [elements |-> elements]

\* what each operation returns when it gives up
DefaultRet(op) ==
    CASE op = "get" -> Null
      [] op \in {"has", "ping"} -> JsBoolean(FALSE)
      [] op = "keys" -> JsArray({})
      [] OTHER -> Undefined

Return(o, value) == [o EXCEPT !.pc = "returned", !.ret = Some(value)]

\* catch { return <default> } around a failed step of the operation
CatchAndReturn(o, cause) == [Return(o, DefaultRet(o.op)) EXCEPT !.cause = cause]

\* the same step with the error left to the caller
Rethrow(o, cause) ==
    [o EXCEPT !.pc = "returned", !.ret = Some(Undefined), !.threw = TRUE, !.cause = cause]

\* await this.connect() outside any try block
ConnectRethrown(o) == Rethrow(o, "connect")

\* try { await this.connect() } catch { return <default> }
ConnectRejected(o) == CatchAndReturn(o, "connect")

\* after the connection step: if (!this.client) return <default>; otherwise
\* the store command is sent on this.client
Proceed(o, current) ==
    IF current = 0 THEN CatchAndReturn(o, "connect")
    ELSE [o EXCEPT !.pc = "command", !.cl = current]

\* the operation's try block once its command has been answered from store st
CommandResult(o, st) ==
    LET fullKey == getKey(o.key)
        \* keys(pattern): the pattern is the operation's key argument
        actualTtl == ActualTtl(o.ttl, DefaultTtlSeconds)
        searchPattern == IF o.key # <<>> THEN config.keyPrefix \o o.key
                         ELSE config.keyPrefix \o <<"*">>
    IN CASE o.op = "get" ->
              [store |-> st,
               op |-> IF fullKey \notin DOMAIN st THEN Return(o, Null)
                      ELSE IF Parses(st[fullKey].value)
                           THEN Return(o, Deserialize(st[fullKey].value))
                           ELSE CatchAndReturn(o, "decode")]
         [] o.op = "set" ->
              [store |-> MapPut(st, fullKey,
                                [value |-> Serialize(o.value),
                                 ex |-> IF actualTtl > 0 THEN actualTtl ELSE 0]),
               op |-> Return(o, Undefined)]
         [] o.op = "delete" ->
              [store |-> MapRemove(st, {fullKey}), op |-> Return(o, Undefined)]
         [] o.op = "has" ->
              [store |-> st, op |-> Return(o, JsBoolean(fullKey \in DOMAIN st))]
         [] o.op = "keys" ->
              [store |-> st,
               op |-> Return(o, JsArray({ReplaceFirst(k, config.keyPrefix) :
                                            k \in StoreKeysMatching(st, searchPattern)}))]
         [] o.op = "clear" ->
              LET keys == StoreKeysMatching(st, config.keyPrefix \o <<"*">>)
              IN [store |-> st,
                  op |-> IF keys # {} THEN [o EXCEPT !.pc = "deleting", !.found = keys]
                         ELSE Return(o, Undefined)]
         [] OTHER -> [store |-> st, op |-> Return(o, JsBoolean(TRUE))]

\* new RedisCacheProvider(config, defaultTtl), next to a store that another
\* program uses too
RedisInit ==
    /\ now = 0
    /\ cache = EmptyMap
    /\ sweepOn = FALSE
    /\ provider = NullProvider
    /\ enabled = FALSE
    /\ defaultTtl = DefaultTtlSeconds
    /\ last = NoCall
    /\ NoDomain
    /\ config = RedisConfig(<<>>)
    /\ client = 0
    /\ connected = FALSE
    /\ clients = <<>>
    /\ store = MapPut(EmptyMap, ForeignKey, [value |-> Serialize([data |-> "v1"]), ex |-> 0])
    /\ ops = [s \in Slots |-> IdleOp]

\* the operation is called and runs up to its first await
RedisStart(s, op, key, value, ttl) ==
    /\ ops[s].pc \in {"idle", "returned"}
    /\ LET o == [IdleOp EXCEPT !.op = op, !.key = key, !.value = value, !.ttl = ttl]
       IN CASE op = "getStats" ->
                 /\ ops' = [ops EXCEPT ![s] = Return(o, [connected |-> connected])]
                 /\ UNCHANGED <<client, clients>>
            [] op = "close" ->
                 /\ ops' = [ops EXCEPT ![s] =
                               IF client # 0 /\ connected
                               THEN [o EXCEPT !.pc = "quitting", !.cl = client]
                               ELSE Return(o, Undefined)]
                 /\ UNCHANGED <<client, clients>>
            [] OTHER ->
                 IF connected /\ client # 0
                 THEN /\ ops' = [ops EXCEPT ![s] = Proceed(o, client)]
                      /\ UNCHANGED <<client, clients>>
                 ELSE /\ Len(clients) < MaxClients
                      /\ clients' = Append(clients, NewClient)
                      /\ client' = Len(clients) + 1
                      /\ ops' = [ops EXCEPT ![s] =
                                    [o EXCEPT !.pc = "connecting", !.cl = Len(clients) + 1,
                                              !.attempts = 1]]
    /\ UNCHANGED <<config, connected, store, cacheVars, domainVars>>

\* client c gets connected: its 'connect' handler runs, client.connect()
\* resolves and the connect() that awaits it sets connected and returns
ClientConnected(c) ==
    /\ clients[c].status = "connecting"
    /\ clients' = [clients EXCEPT ![c] = [status |-> "ready", retries |-> 0, delay |-> 0]]
    /\ connected' = TRUE
    /\ ops' = [s \in Slots |->
                 IF ops[s].pc = "connecting" /\ ops[s].cl = c
                 THEN Proceed(ops[s], client) ELSE ops[s]]
    /\ UNCHANGED <<config, client, store, cacheVars, domainVars>>

\* the connection of client c fails: its 'error' handler runs and the
\* reconnect strategy decides between another attempt and giving up ('end');
\* when it gives up, a pending client.connect() rejects and the connect()
\* that awaits it resets the fields and throws
ClientFails(c) ==
    /\ clients[c].status \in {"connecting", "ready"}
    /\ LET again == reconnectStrategy(clients[c].retries).again
           delay == reconnectStrategy(clients[c].retries).delay
           awaited == \E s \in Slots : ops[s].pc = "connecting" /\ ops[s].cl = c
       IN /\ clients' = [clients EXCEPT ![c] =
                           IF again
                           THEN [status |-> "connecting", retries |-> clients[c].retries + 1,
                                 delay |-> delay]
                           ELSE [status |-> "closed", retries |-> 0, delay |-> 0]]
          /\ connected' = FALSE
          /\ client' = IF ~again /\ awaited THEN 0 ELSE client
          /\ ops' = [s \in Slots |->
                       IF ~again /\ ops[s].pc = "connecting" /\ ops[s].cl = c
                       THEN ConnectRejected(ops[s]) ELSE ops[s]]
    /\ UNCHANGED <<config, store, cacheVars, domainVars>>

\* a timeout action that never fires: connect() awaiting client.connect() alone
ConnectNeverTimesOut(s) ==
    /\ FALSE
    /\ UNCHANGED vars

\* the connectTimeout timer of connect() fires before client.connect() has
\* settled: the race rejects, connect() resets the fields and throws; the
\* client it created is left as it is
ConnectTimeout(s) ==
    /\ ops[s].pc = "connecting"
    /\ connected' = FALSE
    /\ client' = 0
    /\ ops' = [ops EXCEPT ![s] = ConnectRejected(ops[s])]
    /\ UNCHANGED <<config, clients, store, cacheVars, domainVars>>

\* the store answers the operation's command
CommandReplies(s) ==
    /\ ops[s].pc = "command"
    /\ clients[ops[s].cl].status = "ready"
    /\ LET r == CommandResult(ops[s], store)
       IN /\ store' = r.store
          /\ ops' = [ops EXCEPT ![s] = r.op]
    /\ UNCHANGED <<config, client, connected, clients, cacheVars, domainVars>>

\* the command is rejected (an error reply, the connection lost or closed)
CommandFails(s) ==
    /\ ops[s].pc \in {"command", "deleting"}
    /\ ops' = [ops EXCEPT ![s] = CatchAndReturn(ops[s], "command")]
    /\ UNCHANGED <<config, client, connected, clients, store, cacheVars, domainVars>>

\* clear(): the store answers the del of the keys found
DelReplies(s) ==
    /\ ops[s].pc = "deleting"
    /\ clients[ops[s].cl].status = "ready"
    /\ store' = MapRemove(store, ops[s].found)
    /\ ops' = [ops EXCEPT ![s] = Return(ops[s], Undefined)]
    /\ UNCHANGED <<config, client, connected, clients, cacheVars, domainVars>>

\* a close that quits the client and keeps the provider's fields
QuitRepliesKeepsFields(s) ==
    /\ ops[s].pc = "quitting"
    /\ clients[ops[s].cl].status = "ready"
    /\ clients' = [clients EXCEPT ![ops[s].cl] = [status |-> "closed", retries |-> 0, delay |-> 0]]
    /\ ops' = [ops EXCEPT ![s] = Return(ops[s], Undefined)]
    /\ UNCHANGED <<config, client, connected, store, cacheVars, domainVars>>

\* close(): quit is answered, the client ends ('end'), the fields are reset
QuitReplies(s) ==
    /\ ops[s].pc = "quitting"
    /\ clients[ops[s].cl].status = "ready"
    /\ clients' = [clients EXCEPT ![ops[s].cl] = [status |-> "closed", retries |-> 0, delay |-> 0]]
    /\ connected' = FALSE
    /\ client' = 0
    /\ ops' = [ops EXCEPT ![s] = Return(ops[s], Undefined)]
    /\ UNCHANGED <<config, store, cacheVars, domainVars>>

\* close(): quit is rejected; the error is logged and the fields are kept
QuitFails(s) ==
    /\ ops[s].pc = "quitting"
    /\ ops' = [ops EXCEPT ![s] = [Return(ops[s], Undefined) EXCEPT !.cause = "command"]]
    /\ UNCHANGED <<config, client, connected, clients, store, cacheVars, domainVars>>

\* another program writes a text that is not JSON under one of the prefixed keys
StoreCorrupted(key) ==
    /\ store' = MapPut(store, getKey(key), [value |-> Garbage, ex |-> 0])
    /\ UNCHANGED <<config, client, connected, clients, ops, cacheVars, domainVars>>

\* the operations called one at a time (slot 1)
RedisNext ==
    \/ \E op \in RedisOperations, key \in RedisKeys \cup RedisPatterns,
          value \in Values, ttl \in RedisTtls :
          /\ IF op = "keys" THEN key \in RedisPatterns
             ELSE IF op \in {"get", "set", "delete", "has"} THEN key \in RedisKeys
             ELSE key = <<>>
          /\ IF op = "set" THEN TRUE ELSE value = [data |-> "v1"] /\ ttl = None
          /\ RedisStart(1, op, key, value, ttl)
    \/ \E c \in DOMAIN clients : ClientConnected(c)
    \/ \E c \in DOMAIN clients : ClientFails(c)
    \/ ConnectTimeout(1)
    \/ CommandReplies(1)
    \/ CommandFails(1)
    \/ DelReplies(1)
    \/ QuitReplies(1)
    \/ QuitFails(1)
    \/ \E key \in RedisKeys : StoreCorrupted(key)

SpecRedis == RedisInit /\ [][RedisNext]_vars

\* the timers of the event loop fire, and the store client settles every
\* command it was given, with a reply or with an error
RedisFairness ==
    /\ WF_vars(ConnectTimeout(1))
    /\ WF_vars(CommandReplies(1) \/ DelReplies(1) \/ CommandFails(1))
    /\ WF_vars(QuitReplies(1) \/ QuitFails(1))

SpecRedisFair == RedisInit /\ [][RedisNext]_vars /\ RedisFairness

(***************************************************************************)
(* RedisCacheProvider next to the other users of the store: the provider   *)
(* is constructed with a key prefix of its configuration, the store holds  *)
(* keys of other programs, and the connection stays up.                    *)
(***************************************************************************)
\* keyPrefix of the RedisConfig: omitted, or '[a]:'
KeyPrefixes == {<<>>, <<"[", "a", "]", ":">>}

\* keys that other programs keep in the store
ForeignKeys == {ForeignKey, <<"a", ":", "k">>}

SharedStoreOperations == {"get", "set", "delete", "clear", "has", "keys"}
SharedStoreTtls == RedisTtls \cup {Some(FeatureTtlSeconds)}

\* new RedisCacheProvider({host, keyPrefix}, defaultTtl)
SharedStoreInit ==
    \E prefix \in KeyPrefixes :
        /\ now = 0
        /\ cache = EmptyMap
        /\ sweepOn = FALSE
        /\ provider = NullProvider
        /\ enabled = FALSE
        /\ defaultTtl = DefaultTtlSeconds
        /\ last = NoCall
        /\ NoDomain
        /\ config = RedisConfig(prefix)
        /\ client = 0
        /\ connected = FALSE
        /\ clients = <<>>
        /\ store = [key \in ForeignKeys |->
                       [value |-> Serialize([data |-> "v1"]), ex |-> 0]]
        /\ ops = [s \in Slots |-> IdleOp]

SharedStoreNext ==
    \/ \E op \in SharedStoreOperations, key \in RedisKeys \cup RedisPatterns,
          value \in Values, ttl \in SharedStoreTtls :
          /\ IF op = "keys" THEN key \in RedisPatterns
             ELSE IF op = "clear" THEN key = <<>>
             ELSE key \in RedisKeys
          /\ IF op = "set" THEN TRUE ELSE value = [data |-> "v1"] /\ ttl = None
          /\ RedisStart(1, op, key, value, ttl)
    \/ \E c \in DOMAIN clients : ClientConnected(c)
    \/ CommandReplies(1)
    \/ CommandFails(1)
    \/ DelReplies(1)

SpecSharedStore == SharedStoreInit /\ [][SharedStoreNext]_vars

(***************************************************************************)
(* CacheProviderFactory on its own: the application holds a CacheOptions   *)
(* object and calls validate and create on it.                             *)
(***************************************************************************)
FactoryTypes == {"", "builtin", "redis", "memcached"}
FactoryTtls == {None, Some(0), Some(-1), Some(1)}
RedisHosts == {"", "localhost"}
RedisPorts == {None, Some(0), Some(1), Some(65535), Some(65536)}
RedisDbs == {None, Some(0), Some(-1), Some(15), Some(16)}
RedisConnectTimeouts == {None, Some(0), Some(-1), Some(1)}

\* options.external?.redis: absent, or a RedisConfig
RedisConfigs ==
    {None} \cup
    {Some([host |-> h, port |-> p, db |-> d, connectTimeout |-> t]) :
        h \in RedisHosts, p \in RedisPorts, d \in RedisDbs, t \in RedisConnectTimeouts}

FactoryOptions ==
    [enabled : BOOLEAN, type : FactoryTypes, ttl : FactoryTtls, redis : RedisConfigs]

FactoryCall(op, options, error, ret) ==
    [op |-> op, arg |-> options, fault |-> FALSE, ret |-> ret, threw |-> error # Ok,
     raised |-> FALSE, on |-> FALSE, error |-> error]

FactoryInit ==
    \E options \in FactoryOptions :
        /\ now = 0
        /\ cache = EmptyMap
        /\ sweepOn = FALSE
        /\ provider = NullProvider
        /\ enabled = FALSE
        /\ defaultTtl = DefaultTtlSeconds
        /\ last = FactoryCall("options", options, Ok, Undefined)
        /\ NoDomain
        /\ NoRedis

\* CacheProviderFactory.validate(options)
ValidateCall ==
    /\ last' = FactoryCall("validate", last.arg, FactoryValidate(last.arg), Undefined)
    /\ UNCHANGED <<now, cache, sweepOn, provider, enabled, defaultTtl, domainVars, redisVars>>

\* CacheProviderFactory.create(options)
CreateCall ==
    LET r == FactoryCreate(last.arg)
    IN /\ last' = FactoryCall("create", last.arg, r.error,
                              [provider |-> r.provider, ttl |-> r.ttl])
       /\ UNCHANGED <<now, cache, sweepOn, provider, enabled, defaultTtl, domainVars, redisVars>>

FactoryNext == ValidateCall \/ CreateCall

SpecFactory == FactoryInit /\ [][FactoryNext]_vars

(***************************************************************************)
(* The domain key builders of CacheModule, called with ids that may        *)
(* contain the separator.                                                  *)
(***************************************************************************)
MaxIdLen == 3
BuilderIdChars == {"a", ":"}
BuilderIds == UNION {[1..n -> BuilderIdChars] : n \in 1..MaxIdLen}

KeyBuilt(builder, userId, featureName, key) ==
    /\ last' = [op |-> builder, arg |-> <<userId, featureName>>, fault |-> FALSE,
                ret |-> key, threw |-> FALSE, raised |-> FALSE, on |-> isEnabled]
    /\ UNCHANGED <<now, cache, sweepOn, provider, enabled, defaultTtl, domainVars, redisVars>>

ContractKeyBuilt(userId) ==
    KeyBuilt("getContractKey", userId, <<>>, getContractKey(userId))

FeatureKeyBuilt(userId, featureName) ==
    KeyBuilt("getFeatureKey", userId, featureName, getFeatureKey(userId, featureName))

SubscriptionKeyBuilt(userId) ==
    KeyBuilt("getSubscriptionKey", userId, <<>>, getSubscriptionKey(userId))

PricingTokenKeyBuilt(userId) ==
    KeyBuilt("getPricingTokenKey", userId, <<>>, getPricingTokenKey(userId))

KeyBuildersNext ==
    \/ \E userId \in BuilderIds : ContractKeyBuilt(userId)
    \/ \E userId \in BuilderIds, featureName \in BuilderIds :
          FeatureKeyBuilt(userId, featureName)
    \/ \E userId \in BuilderIds : SubscriptionKeyBuilt(userId)
    \/ \E userId \in BuilderIds : PricingTokenKeyBuilt(userId)

SpecKeyBuilders == CacheModuleInit /\ [][KeyBuildersNext]_vars

(***************************************************************************)
(* SpaceClient: the event subscription table and the '/pricings' socket    *)
(***************************************************************************)
\* an event name is a pair <<name, casing>>
EventNames == {"synchronized", "pricing_created", "pricing_archived",
               "pricing_actived", "service_disabled", "error"}

Casings == {"lower", "upper"}

\* String.prototype.toLowerCase
toLowerCase(event) == <<event[1], "lower">>

validEvents == {<<n, "lower">> : n \in EventNames}

\* the codes the server sends in a 'message'
SpaceEvent == {<<n, "upper">> : n \in {"pricing_created", "pricing_archived",
                                       "pricing_actived", "service_disabled"}}

\* the names the application passes to on() and removeListener():
\* the supported ones and an unsupported one, in either casing
OnEvents == (EventNames \cup {"pricing_change"}) \X Casings

Callbacks == {"h1", "h2"}

\* the last step of the client: the call, its argument, the callbacks it ran
EventCall(op, arg, invoked) == [op |-> op, arg |-> arg, invoked |-> invoked]

\* what a socket listener finds under a key of callBackFunctions and runs
Invoke(event) ==
    IF pricingSocketNamespace.listeners /\ event \in DOMAIN callBackFunctions
    THEN {callBackFunctions[event]} ELSE {}

EventsInit ==
    /\ now = 0
    /\ cache = EmptyMap
    /\ sweepOn = FALSE
    /\ provider = NullProvider
    /\ enabled = FALSE
    /\ defaultTtl = DefaultTtlSeconds
    /\ last = EventCall("new", <<>>, {})
    /\ NoDomain
    /\ NoRedis

\* on(event, callback) that stores the callback under the name as given
OnCaseSensitive(event, callback) ==
    /\ callBackFunctions' =
          IF toLowerCase(event) \in validEvents
          THEN MapPut(callBackFunctions, event, callback)
          ELSE callBackFunctions
    /\ last' = EventCall("on", <<event, callback>>, {})
    /\ UNCHANGED <<now, cache, sweepOn, provider, enabled, defaultTtl,
                   remoteVersion, calls, currentUser, pricingSocketNamespace,
                   redisVars>>

\* SpaceClient.on(event, callback)
On(event, callback) ==
    /\ callBackFunctions' =
          IF toLowerCase(event) \in validEvents
          THEN MapPut(callBackFunctions, toLowerCase(event), callback)
          ELSE callBackFunctions
    /\ last' = EventCall("on", <<event, callback>>, {})
    /\ UNCHANGED <<now, cache, sweepOn, provider, enabled, defaultTtl,
                   remoteVersion, calls, currentUser, pricingSocketNamespace,
                   redisVars>>

\* SpaceClient.removeListener(event)
RemoveListener(event) ==
    /\ callBackFunctions' =
          IF toLowerCase(event) \in validEvents
          THEN MapRemove(callBackFunctions, {toLowerCase(event)})
          ELSE callBackFunctions
    /\ last' = EventCall("removeListener", event, {})
    /\ UNCHANGED <<now, cache, sweepOn, provider, enabled, defaultTtl,
                   remoteVersion, calls, currentUser, pricingSocketNamespace,
                   redisVars>>

\* SpaceClient.removeAllListeners()
RemoveAllListeners ==
    /\ callBackFunctions' = MapRemove(callBackFunctions, validEvents)
    /\ last' = EventCall("removeAllListeners", <<>>, {})
    /\ UNCHANGED <<now, cache, sweepOn, provider, enabled, defaultTtl,
                   remoteVersion, calls, currentUser, pricingSocketNamespace,
                   redisVars>>

\* SpaceClient.connect()
Connect ==
    /\ pricingSocketNamespace' =
          IF ~pricingSocketNamespace.connected
          THEN [pricingSocketNamespace EXCEPT !.active = TRUE]
          ELSE pricingSocketNamespace
    /\ last' = EventCall("connect", <<>>, {})
    /\ UNCHANGED <<now, cache, sweepOn, provider, enabled, defaultTtl,
                   remoteVersion, calls, currentUser, callBackFunctions,
                   redisVars>>

\* SpaceClient.disconnect(): also drops the listeners configureSocket attached
Disconnect ==
    /\ pricingSocketNamespace' =
          IF pricingSocketNamespace.connected
          THEN [active |-> FALSE, connected |-> FALSE, listeners |-> FALSE]
          ELSE pricingSocketNamespace
    /\ last' = EventCall("disconnect", <<>>, {})
    /\ UNCHANGED <<now, cache, sweepOn, provider, enabled, defaultTtl,
                   remoteVersion, calls, currentUser, callBackFunctions,
                   redisVars>>

\* the socket emits 'connect'
SocketConnect ==
    /\ pricingSocketNamespace.active
    /\ ~pricingSocketNamespace.connected
    /\ pricingSocketNamespace' =
          [pricingSocketNamespace EXCEPT !.connected = TRUE]
    /\ last' = EventCall("socket.connect", <<>>,
                         Invoke(<<"synchronized", "lower">>))
    /\ UNCHANGED <<now, cache, sweepOn, provider, enabled, defaultTtl,
                   remoteVersion, calls, currentUser, callBackFunctions,
                   redisVars>>

\* the socket emits 'message' with data.code = code
SocketMessage(code) ==
    /\ pricingSocketNamespace.connected
    /\ last' = EventCall("socket.message", code, Invoke(toLowerCase(code)))
    /\ UNCHANGED <<now, cache, sweepOn, provider, enabled, defaultTtl,
                   domainVars, redisVars>>

\* the socket emits 'connect_error'
SocketConnectError ==
    /\ pricingSocketNamespace.active
    /\ ~pricingSocketNamespace.connected
    /\ last' = EventCall("socket.connect_error", <<>>,
                         Invoke(<<"error", "lower">>))
    /\ UNCHANGED <<now, cache, sweepOn, provider, enabled, defaultTtl,
                   domainVars, redisVars>>

EventsNext ==
    \/ \E event \in OnEvents, callback \in Callbacks : On(event, callback)
    \/ \E event \in OnEvents : RemoveListener(event)
    \/ RemoveAllListeners
    \/ Connect
    \/ Disconnect
    \/ SocketConnect
    \/ \E code \in SpaceEvent : SocketMessage(code)
    \/ SocketConnectError

SpecEvents == EventsInit /\ [][EventsNext]_vars

(***************************************************************************)
(* The domain operations of one user issued concurrently: a second         *)
(* operation may be called while the request or the then handler of the    *)
(* first is pending. getContract, a read-only evaluate and                 *)
(* updateContractSubscription are the operations issued.                   *)
(***************************************************************************)
ConcurrentKinds == {"getContract", "evaluate", "updateContractSubscription"}

ConcurrentInit ==
    \E u \in DomainUsers :
        /\ now = 0
        /\ cache = EmptyMap
        /\ sweepOn = TRUE
        /\ enabled = TRUE
        /\ provider = FactoryCreate(OptDefault).provider
        /\ defaultTtl = FactoryCreate(OptDefault).ttl
        /\ last = NoCall
        /\ remoteVersion = 0
        /\ calls = [s \in Slots |-> IdleCall]
        /\ currentUser = u
        /\ callBackFunctions = EmptyMap
        /\ pricingSocketNamespace = NewSocket
        /\ NoRedis

ConcurrentNext ==
    \/ \E s \in Slots, kind \in ConcurrentKinds, f \in DomainFeatures :
          DomainStart(s, kind, f, FALSE)
    \/ \E s \in Slots, status \in ReplyStatuses : ServerReply(s, status)
    \/ \E s \in Slots : DomainThen(s)
    \/ \E s \in Slots : DomainCacheCall(s)
    \/ \E s \in Slots : DomainCatch(s)

SpecDomainConcurrent == ConcurrentInit /\ [][ConcurrentNext]_vars

(***************************************************************************)
(* RedisCacheProvider with operations issued concurrently: a second        *)
(* operation may be called while the first awaits its connection or its    *)
(* command.                                                                *)
(***************************************************************************)
ConcurrentOperations == {"get", "set", "close"}

RedisConcurrentNext ==
    \/ \E s \in Slots, op \in ConcurrentOperations :
          RedisStart(s, op, IF op = "close" THEN <<>> ELSE <<"k">>, [data |-> "v1"], None)
    \/ \E c \in DOMAIN clients : ClientConnected(c)
    \/ \E c \in DOMAIN clients : ClientFails(c)
    \/ \E s \in Slots : ConnectTimeout(s)
    \/ \E s \in Slots : CommandReplies(s)
    \/ \E s \in Slots : CommandFails(s)
    \/ \E s \in Slots : QuitReplies(s)
    \/ \E s \in Slots : QuitFails(s)

SpecRedisConcurrent == RedisInit /\ [][RedisConcurrentNext]_vars

(***************************************************************************)
(* Claims                                                                  *)
(***************************************************************************)

\* C1: after invalidateUser(u) has completed on an enabled cache, has() is
\* false for the contract key, every feature key, the subscription key and
\* the pricing-token key of u.
C1_InvalidateUserRemovesAllKeysOfUser ==
    (last.op = "invalidateUser" /\ last.on /\ ~last.fault)
        => \A key \in UserKeys(last.arg) : ~ModuleHas(cache, key, FALSE).ret

\* C2: invalidateUser(u) removes only entries of u: every entry of another
\* user v that was stored before the call is stored afterwards with the
\* same value.
C2_InvalidateUserKeepsOtherUsers ==
    [][(last'.op = "invalidateUser" /\ last'.on /\ ~last'.fault)
        => \A v \in UserIds \ {last'.arg} : \A key \in UserKeys(v) :
              getFullKey(key) \in DOMAIN cache
                  => /\ getFullKey(key) \in DOMAIN cache'
                     /\ cache'[getFullKey(key)] = cache[getFullKey(key)]]_vars

\* C6: no CacheModule operation throws; when caching is disabled or closed,
\* or when the provider's operation raises an error, get returns null, has
\* returns false, keys returns the empty list and set, delete, clear and
\* invalidateUser return without effect.
CacheOperations == {"get", "set", "delete", "has", "clear", "keys", "invalidateUser", "close"}

C6_CacheModuleNeverThrows ==
    [][last'.op \in CacheOperations
        => /\ ~last'.threw
           /\ (~last'.on \/ last'.raised)
                => /\ last'.op = "get" => last'.ret = Null
                   /\ last'.op = "has" => last'.ret = FALSE
                   /\ last'.op = "keys" => last'.ret = {}
                   /\ last'.op \in {"set", "delete", "clear", "invalidateUser"}
                        => cache' = cache]_vars

\* C6 witness: keys() on an enabled cache whose provider raised an error (the
\* pattern is no regular expression) returned the empty list
C6_Witness ==
    /\ last.op = "keys" /\ last.on /\ ~last.fault /\ last.raised
    /\ ~last.threw /\ last.ret = {}
    /\ cache # EmptyMap

\* C3: in the in-process provider, get(key) returns null and has(key) returns
\* false at every instant at or after the entry's expiresAt, and the value
\* and true at every instant strictly before it.
C3_ExpiredAtExpiresAt ==
    [][(now' = now /\ last'.op \in {"builtin.get", "builtin.has"}
        /\ last'.arg \in DOMAIN cache)
        => LET entry == cache[last'.arg]
               absent == IF last'.op = "builtin.get" THEN last'.ret = Null
                         ELSE last'.ret = FALSE
               found == IF last'.op = "builtin.get" THEN last'.ret = entry.value
                        ELSE last'.ret = TRUE
           IN /\ entry.expiresAt = entry.createdAt + entry.ttl * MsPerSecond
              /\ now >= entry.expiresAt => absent
              /\ now < entry.expiresAt => found]_vars

\* the cache calls of a log that change the cache
Mutations(log) == {log[i] : i \in DOMAIN log} \cap {"set", "delete", "invalidateUser"}

\* the entries a reader of the cache can observe at time t
LiveEntries(c, t) == [key \in {k \in DOMAIN c : ~IsExpired(c[k], t)} |-> c[key]]

\* C4: a write evaluation (nonzero expected consumption) never reads the
\* feature cache and never stores its result there; once it has returned
\* successfully with caching enabled, the feature key, the contract key and
\* the pricing-token key of the user are absent from the cache.
C4_WriteEvaluationInvalidates ==
    [][\A s \in Slots :
          (calls'[s].kind = "evaluate" /\ calls'[s].write /\ calls'[s] # calls[s])
              => /\ \A i \in DOMAIN calls'[s].log : calls'[s].log[i] \notin {"get", "set"}
                 /\ (calls'[s].pc = "returned" /\ isEnabled)
                        => \A key \in {getFeatureKey(currentUser, calls'[s].featureId),
                                       getContractKey(currentUser),
                                       getPricingTokenKey(currentUser)} :
                              getFullKey(key) \notin DOMAIN cache']_vars

\* C5: within one domain operation no cache set, delete or invalidateUser is
\* issued before the remote call has completed successfully; when the remote
\* call fails none is issued at all, and no step of the operation up to its
\* failure changes the entries the cache holds live.
C5_NoCacheMutationBeforeRemoteSuccess ==
    [][\A s \in Slots :
          calls'[s].pc \in {"requested", "replied", "threw"}
              => /\ Mutations(calls'[s].log) = {}
                 /\ calls'[s] # calls[s]
                        => LiveEntries(cache', now') = LiveEntries(cache, now)]_vars

\* C5 witness: a getContract that looked its key up, missed, and whose request
\* failed, while the cache held the user's pricing token live.
C5_Witness ==
    /\ calls[1].kind = "getContract"
    /\ calls[1].pc = "threw"
    /\ calls[1].log = <<"get">>
    /\ getFullKey(getPricingTokenKey(currentUser)) \in DOMAIN LiveEntries(cache, now)

\* C9: when addContract returns successfully with caching enabled, it has
\* invalidated the user's entries and then stored the created contract under
\* the user's contract key: no feature, subscription or pricing-token entry
\* of the user is left and a getContract lookup of the key returns the
\* created contract.
C9_AddContractRepopulates ==
    [][\A s \in Slots :
          (/\ calls'[s].kind = "addContract"
           /\ calls'[s].pc = "returned"
           /\ calls[s].pc # "returned"
           /\ isEnabled)
              => /\ calls'[s].log = <<"invalidateUser", "set">>
                 /\ ModuleGet(cache', getContractKey(currentUser), FALSE).ret
                        = calls'[s].result[1].value
                 /\ \A key \in UserKeys(currentUser) \ {getContractKey(currentUser)} :
                        getFullKey(key) \notin DOMAIN cache']_vars

\* C10: in a successful updateContractSubscription(u, s) with caching enabled
\* the contract key is written only after invalidateUser(u) has completed;
\* when it returns no feature or subscription entry of u is left and the
\* contract key of u holds exactly the contract the update returned.
C10_UpdateInvalidatesThenSets ==
    [][\A s \in Slots :
          (calls'[s].kind = "updateContractSubscription" /\ calls'[s] # calls[s] /\ isEnabled)
              => /\ "set" \in Mutations(calls'[s].log)
                        => calls'[s].log = <<"invalidateUser", "set">>
                 /\ calls'[s].pc = "returned"
                        => /\ calls'[s].log = <<"invalidateUser", "set">>
                           /\ \A key \in {getSubscriptionKey(currentUser)} \cup
                                   {getFeatureKey(currentUser, f) : f \in DomainFeatures} :
                                  ~ModuleHas(cache', key, FALSE).ret
                           /\ ModuleGet(cache', getContractKey(currentUser), FALSE).ret
                                  = calls'[s].result[1].value]_vars

\* C7: no operation of RedisCacheProvider throws, in any state of the
\* connection; an operation during which the connection could not be
\* established, the store command failed or the stored value could not be
\* decoded returns null (get), false (has, ping), an empty list (keys), or
\* returns normally (set, delete, clear).
C7_RedisFailsSoft ==
    \A s \in Slots :
        /\ ~ops[s].threw
        /\ (ops[s].pc = "returned" /\ ops[s].cause # "")
               => /\ ops[s].op = "get" => ops[s].ret = Some(Null)
                  /\ ops[s].op \in {"has", "ping"} => ops[s].ret = Some(JsBoolean(FALSE))
                  /\ ops[s].op = "keys" => ops[s].ret = Some(JsArray({}))
                  /\ ops[s].op \in {"set", "delete", "clear"} => ops[s].ret = Some(Undefined)

\* C7 witness: ping has returned false after its connect timeout, and the
\* client it abandoned has since marked the provider connected while the
\* provider holds no client.
C7_Witness ==
    /\ ops[1].op = "ping"
    /\ ops[1].pc = "returned"
    /\ ops[1].cause = "connect"
    /\ ops[1].ret = Some(JsBoolean(FALSE))
    /\ ~ops[1].threw
    /\ connected
    /\ client = 0

C11_GetContractCacheFirst ==
    [][LET key == getFullKey(getContractKey(currentUser))
           call == calls[1]
           started == /\ call.pc \in {"idle", "returned", "threw"}
                      /\ calls'[1] # call
                      /\ calls'[1].kind = "getContract"
           fetched == /\ call.kind = "getContract"
                      /\ call.pc \in {"replied", "then"}
                      /\ calls'[1].pc = "returned"
       IN isEnabled =>
            /\ started =>
                  IF key \in DOMAIN LiveEntries(cache, now)
                  THEN /\ calls'[1].pc = "returned"
                       /\ calls'[1].reply = None
                       /\ calls'[1].result = Returned(cache[key].value)
                       /\ remoteVersion' = remoteVersion
                  ELSE /\ calls'[1].pc = "requested"
                       /\ calls'[1].reply = None
            /\ (call.kind = "getContract" /\ call.pc = "requested")
                  => calls'[1].pc \in {"requested", "replied"}
            /\ fetched =>
                  /\ call.reply # None
                  /\ key \in DOMAIN cache'
                  /\ cache'[key].value = call.reply[1].data
                  /\ cache'[key].ttl = defaultTtl
                  /\ cache'[key].expiresAt = now + defaultTtl * MsPerSecond
                  /\ calls'[1].result = Returned(call.reply[1].data)]_vars

\* getContract has returned the cached contract without a request
C11_Witness ==
    /\ isEnabled
    /\ calls[1].kind = "getContract"
    /\ calls[1].pc = "returned"
    /\ calls[1].reply = None
    /\ calls[1].result = Returned(ContractAt(currentUser, 0))

\* C12: with caching enabled, a read-only evaluation that finds the feature
\* key live in the cache returns the cached result without sending a request;
\* one that does not find it sends a request and, once it has returned, the
\* feature key holds the fetched result with a ttl strictly shorter than the
\* default ttl of the configured cache.
C12_ReadOnlyEvaluateShortTtl ==
    [][LET call == calls[1]
           key == getFullKey(getFeatureKey(currentUser, calls'[1].featureId))
           started == /\ call.pc \in {"idle", "returned", "threw"}
                      /\ calls'[1] # call
                      /\ calls'[1].kind = "evaluate"
                      /\ ~calls'[1].write
           fetched == /\ call.kind = "evaluate"
                      /\ ~call.write
                      /\ call.pc \in {"replied", "then"}
                      /\ calls'[1].pc = "returned"
       IN isEnabled =>
            /\ started =>
                  IF key \in DOMAIN LiveEntries(cache, now)
                  THEN /\ calls'[1].pc = "returned"
                       /\ calls'[1].reply = None
                       /\ calls'[1].result = Returned(cache[key].value)
                  ELSE /\ calls'[1].pc = "requested"
            /\ fetched =>
                  /\ key \in DOMAIN cache'
                  /\ cache'[key].value = call.reply[1].data
                  /\ cache'[key].ttl < defaultTtl]_vars

\* C13: once revertEvaluation has returned successfully with caching enabled,
\* the feature key of the user and feature, the contract key of the user and
\* the pricing-token key of the user are absent from the cache.
C13_RevertEvaluationInvalidates ==
    [][(/\ isEnabled
        /\ calls'[1].kind = "revertEvaluation"
        /\ calls'[1] # calls[1]
        /\ calls'[1].pc = "returned")
          => \A key \in {getFeatureKey(currentUser, calls'[1].featureId),
                         getContractKey(currentUser),
                         getPricingTokenKey(currentUser)} :
                getFullKey(key) \notin DOMAIN cache']_vars

\* C14: with caching enabled, generateUserPricingToken that finds the user's
\* pricing-token key live in the cache returns the cached token without
\* sending a request; otherwise it sends a request and, once it has returned,
\* the pricing-token key holds the returned token with the default ttl.
C14_PricingTokenCached ==
    [][LET call == calls[1]
           key == getFullKey(getPricingTokenKey(currentUser))
           started == /\ call.pc \in {"idle", "returned", "threw"}
                      /\ calls'[1] # call
                      /\ calls'[1].kind = "generateUserPricingToken"
           fetched == /\ call.kind = "generateUserPricingToken"
                      /\ call.pc \in {"replied", "then"}
                      /\ calls'[1].pc = "returned"
       IN isEnabled =>
            /\ started =>
                  IF key \in DOMAIN LiveEntries(cache, now)
                  THEN /\ calls'[1].pc = "returned"
                       /\ calls'[1].reply = None
                       /\ calls'[1].result = Returned(cache[key].value)
                  ELSE /\ calls'[1].pc = "requested"
            /\ fetched =>
                  /\ key \in DOMAIN cache'
                  /\ cache'[key].value = calls'[1].result[1].value
                  /\ cache'[key].ttl = defaultTtl]_vars

\* C15: in the in-process provider, set(key, value, ttl) stores an entry whose
\* createdAt is the current time and whose expiresAt is createdAt plus ttl
\* seconds for every ttl that is passed, and createdAt plus the provider's
\* default ttl only when no ttl is passed.
C15_SetUsesExplicitTtl ==
    [][(/\ last'.op = "builtin.set"
        /\ \/ last.op # "builtin.set"
           \/ cache' # cache
           \/ last.arg # last'.arg
           \/ last.ttl # last'.ttl)
        => LET key == last'.arg
               ttl == IF last'.ttl = None THEN defaultTtl ELSE last'.ttl[1]
           IN /\ key \in DOMAIN cache'
              /\ cache'[key].createdAt = now
              /\ cache'[key].ttl = ttl
              /\ cache'[key].expiresAt = now + ttl * MsPerSecond]_vars

\* a glob pattern matched against a whole key: "*" is any run of characters,
\* "?" is one character, every other character is itself
RECURSIVE GlobMatchesWhole(_, _, _, _)
GlobMatchesWhole(p, i, text, j) ==
    IF i > Len(p) THEN j > Len(text)
    ELSE CASE p[i] = "*" ->
                 \E k \in j..(Len(text) + 1) : GlobMatchesWhole(p, i + 1, text, k)
           [] p[i] = "?" ->
                 j <= Len(text) /\ GlobMatchesWhole(p, i + 1, text, j + 1)
           [] OTHER ->
                 /\ j <= Len(text)
                 /\ text[j] = p[i]
                 /\ GlobMatchesWhole(p, i + 1, text, j + 1)

\* C16: in the in-process provider, keys(pattern) returns exactly the stored
\* keys that the glob pattern matches as a whole, and keys() with no pattern
\* returns every stored key.
C16_KeysMatchWholeGlob ==
    [][(last'.op = "builtin.keys" /\ (last.op # "builtin.keys" \/ last.arg # last'.arg))
        => /\ ~last'.threw
           /\ last'.ret = IF last'.arg = <<>> THEN DOMAIN cache
                          ELSE {key \in DOMAIN cache :
                                   GlobMatchesWhole(last'.arg, 1, key, 1)}]_vars

\* text begins with prefix
StartsWith(text, prefix) ==
    Len(text) >= Len(prefix) /\ SubSeq(text, 1, Len(prefix)) = prefix

\* the command of operation op of slot 1 is answered in this step
Answered(op) ==
    /\ ops[1].op = op
    /\ ops[1].pc \in {"command", "deleting"}
    /\ ops'[1].pc = "returned"
    /\ ops'[1].cause = ""

\* C17: through the networked provider with key prefix p, set(k, v) stores
\* the value under p followed by k and changes no other key; get(k) and
\* has(k) find what is stored under p followed by k; keys() returns exactly
\* the logical keys k of the keys stored under p, with the prefix stripped.
C17_PrefixNeverLeaks ==
    [][LET prefix == config.keyPrefix
           full == prefix \o ops[1].key
       IN /\ Answered("set") =>
                /\ full \in DOMAIN store'
                /\ store'[full].value = Serialize(ops[1].value)
                /\ \A k \in DOMAIN store \ {full} :
                       k \in DOMAIN store' /\ store'[k] = store[k]
          /\ (Answered("get") /\ full \in DOMAIN store)
                => ops'[1].ret = Some(Deserialize(store[full].value))
          /\ Answered("has")
                => ops'[1].ret = Some(JsBoolean(full \in DOMAIN store))
          /\ (Answered("keys") /\ ops[1].key = <<>>)
                => ops'[1].ret =
                      Some(JsArray({SubSeq(k, Len(prefix) + 1, Len(k)) :
                                      k \in {x \in DOMAIN store :
                                                StartsWith(x, prefix)}}))]_vars

\* C18: clear() of the networked provider removes from the store exactly the
\* keys that start with the provider's key prefix, and every other key of
\* the store stays with its value.
C18_ClearOnlyOwnPrefix ==
    [][LET own(st) == {k \in DOMAIN st : StartsWith(k, config.keyPrefix)}
       IN /\ (ops[1].op = "clear" /\ ops[1].pc = "command" /\ ops'[1].cause = "")
                => /\ store' = store
                   /\ IF own(store) = {} THEN ops'[1].pc = "returned"
                      ELSE ops'[1].pc = "deleting" /\ ops'[1].found = own(store)
          /\ (Answered("clear") /\ ops[1].pc = "deleting")
                => /\ \A k \in ops[1].found : k \notin DOMAIN store'
                   /\ \A k \in DOMAIN store \ own(store) :
                          k \in DOMAIN store' /\ store'[k] = store[k]]_vars

\* C19: set(key, value, ttl) of the networked provider stores the key
\* without expiry for every ttl that is passed and is zero or negative, and
\* with the store's expiry set to ttl seconds for every positive ttl.
C19_NonPositiveTtlNoExpiry ==
    [][(Answered("set") /\ ops[1].ttl # None)
        => LET entry == store'[getKey(ops[1].key)]
           IN IF ops[1].ttl[1] <= 0 THEN entry.ex = 0
              ELSE entry.ex = ops[1].ttl[1]]_vars

\* C20: in the in-process provider, delete(key) and clear() never raise an
\* error; delete of a key that is not stored and clear of an empty store
\* leave the store as it was; and delete(key) or clear() applied again to the
\* store they produced leaves that store as it is.
C20_DeleteClearIdempotent ==
    [][/\ last'.op = "builtin.delete" =>
            /\ ~last'.threw
            /\ last'.arg \notin DOMAIN cache => cache' = cache
            /\ last'.arg \notin DOMAIN cache'
            /\ ~BuiltinDelete(cache', last'.arg).threw
            /\ BuiltinDelete(cache', last'.arg).cache = cache'
       /\ last'.op = "builtin.clear" =>
            /\ ~last'.threw
            /\ cache = EmptyMap => cache' = cache
            /\ cache' = EmptyMap
            /\ ~BuiltinClear(cache').threw
            /\ BuiltinClear(cache').cache = cache']_vars

\* delete has returned for a key that is not stored while the other key is
C20_Witness ==
    /\ last.op = "builtin.delete"
    /\ ~last.threw
    /\ last.arg \notin DOMAIN cache
    /\ cache # EmptyMap

\* C21: in the in-process provider, once delete(key) has returned has(key) is
\* false and every other entry of the store is the entry it was; once clear()
\* has returned has(key) is false for every key.
C21_DeleteClearFrame ==
    [][/\ last'.op = "builtin.delete" =>
            /\ BuiltinHas(cache', now', last'.arg).ret = FALSE
            /\ \A key \in DOMAIN cache \ {last'.arg} :
                  key \in DOMAIN cache' /\ cache'[key] = cache[key]
            /\ DOMAIN cache' \subseteq DOMAIN cache
       /\ last'.op = "builtin.clear" =>
            \A key \in StoreKeys \cup DOMAIN cache :
                BuiltinHas(cache', now', key).ret = FALSE]_vars

\* delete has returned for one key while the other key is stored and live
C21_Witness ==
    /\ last.op = "builtin.delete"
    /\ BuiltinHas(cache, now, last.arg).ret = FALSE
    /\ \E key \in DOMAIN cache :
          key # last.arg /\ BuiltinHas(cache, now, key).ret = TRUE

\* some rule of the configuration is violated: ttl, if present, is not
\* positive; or the type is redis and the connection parameters are absent,
\* the host is empty, the port (if given) is outside 1..65535, the database
\* index (if given) is outside 0..15 or the connect timeout (if given) is
\* not positive
RuleViolated(options) ==
    \/ options.ttl # None /\ options.ttl[1] <= 0
    \/ /\ options.type = "redis"
       /\ \/ options.redis = None
          \/ /\ options.redis # None
             /\ LET redis == options.redis[1]
                IN \/ redis.host = ""
                   \/ redis.port # None /\ redis.port[1] \notin 1..65535
                   \/ redis.db # None /\ redis.db[1] \notin 0..15
                   \/ redis.connectTimeout # None /\ redis.connectTimeout[1] <= 0

\* C22: CacheProviderFactory.validate throws for an enabled configuration
\* exactly when one of the rules is violated, and never throws for a
\* disabled configuration.
C22_ValidateRejectsEveryViolation ==
    last.op = "validate"
        => (last.threw <=> (last.arg.enabled /\ RuleViolated(last.arg)))

\* C23: CacheProviderFactory.create returns an in-process provider when the
\* type is builtin or omitted and a networked provider when the type is
\* redis and the connection parameters are present; it throws when the type
\* is redis without connection parameters and when the type is any other.
C23_CreateMatchesType ==
    last.op = "create"
        => LET options == last.arg
           IN /\ options.type \in {"", "builtin"}
                    => ~last.threw /\ last.ret.provider = "builtin"
              /\ (options.type = "redis" /\ options.redis # None)
                    => ~last.threw /\ last.ret.provider = "redis"
              /\ (options.type = "redis" /\ options.redis = None) => last.threw
              /\ options.type \notin {"", "builtin", "redis"} => last.threw

\* create has returned an in-process provider for options without a type
C23_Witness ==
    /\ last.op = "create"
    /\ last.arg.type = ""
    /\ ~last.threw
    /\ last.ret.provider = "builtin"

\* C24: isEnabled() is true after an initialize exactly when that initialize
\* was given an enabled configuration and did not throw, an initialize that
\* throws leaves isEnabled() false, isEnabled() is false after a close, and
\* no other call changes it.
C24_EnabledIffLastInitializeSucceeded ==
    [][/\ last'.op = "initialize"
            => /\ isEnabled' <=> (last'.arg.enabled /\ ~last'.threw)
               /\ last'.threw => ~isEnabled'
       /\ last'.op = "close" => ~isEnabled'
       /\ last'.op \notin {"initialize", "close"} => (isEnabled' <=> isEnabled)]_vars

\* C25: CacheModule.close() never throws and leaves the module disabled with
\* no provider; when there was a provider and its close succeeds, the
\* provider has been closed (its entries dropped, its timer stopped); when
\* there was none (a second close, or a module never enabled) nothing
\* changes; and on a module without provider get returns null, has returns
\* false and set stores nothing.
C25_CloseDisablesAndIsIdempotent ==
    [][/\ last'.op = "close" =>
            /\ ~last'.threw
            /\ provider' = NullProvider
            /\ ~enabled'
            /\ (provider # NullProvider /\ ~last'.fault)
                  => cache' = EmptyMap /\ ~sweepOn'
            /\ provider = NullProvider
                  => UNCHANGED <<cache, sweepOn, enabled, defaultTtl, now>>
       /\ provider = NullProvider =>
            /\ last'.op = "get" => last'.ret = Null /\ cache' = cache
            /\ last'.op = "has" => last'.ret = FALSE /\ cache' = cache
            /\ last'.op = "set" => cache' = cache /\ ~last'.threw]_vars

\* close has returned on a module that was enabled when it was called
C25_Witness ==
    /\ last.op = "close"
    /\ last.on
    /\ ~last.threw
    /\ provider = NullProvider
    /\ ~enabled

C27_TransportErrorPropagates ==
    \A s \in Slots :
        calls[s].pc = "threw"
            => /\ calls[s].reply # None
               /\ calls[s].reply[1].status # "ok"
               /\ calls[s].result = Threw(calls[s].reply[1].status)

\* C28: two keys built one after the other by getContractKey, getFeatureKey,
\* getSubscriptionKey or getPricingTokenKey are equal only if they were built
\* by the same builder from the same user id and the same feature id.
C28_KeyBuildersCollisionFree ==
    [][(/\ last.op # "new"
        /\ last'.op # "new"
        /\ last'.ret = last.ret)
          => last'.op = last.op /\ last'.arg = last.arg]_vars

\* C29: getStats() of the in-process provider reports as total the number of
\* stored entries, as expired the number of stored entries whose expiresAt
\* the clock has passed and as active the number of the others, so that
\* total = active + expired, and it leaves the store as it was.
C29_StatsCountEntries ==
    [][(last'.op = "builtin.getStats" /\ now' = now)
        => LET stats == last'.ret
               passed == {key \in DOMAIN cache : now > cache[key].expiresAt}
           IN /\ ~last'.threw
              /\ stats.total = Cardinality(DOMAIN cache)
              /\ stats.expired = Cardinality(passed)
              /\ stats.active = Cardinality(DOMAIN cache \ passed)
              /\ stats.total = stats.active + stats.expired
              /\ cache' = cache]_vars

\* getStats has reported one active and one expired entry
C29_Witness ==
    /\ last.op = "builtin.getStats"
    /\ last.ret.total = 2
    /\ last.ret.active = 1
    /\ last.ret.expired = 1
    /\ Cardinality(DOMAIN cache) = 2

\* C30: the subscription table holds at most one handler per event name.
\* Its keys are lower-cased supported names; on() with a supported name makes
\* the callback the only handler of that (case-insensitive) name and touches
\* no other name, on() with an unsupported name registers nothing,
\* removeListener() drops exactly that name, removeAllListeners() drops all,
\* nothing else changes the table, and an incoming message runs at most the
\* one callback the table holds for its lower-cased code.
SameExcept(e) ==
    \A k \in (DOMAIN callBackFunctions \cup DOMAIN callBackFunctions') \ {e} :
        /\ k \in DOMAIN callBackFunctions
        /\ k \in DOMAIN callBackFunctions'
        /\ callBackFunctions'[k] = callBackFunctions[k]

Min(a, b) == IF a < b THEN a ELSE b

C32_LazyEvictionFrame ==
    [][/\ (now' = now /\ last'.op \in {"builtin.get", "builtin.has"}) =>
             IF last'.arg \in DOMAIN cache /\ now >= cache[last'.arg].expiresAt
             THEN /\ DOMAIN cache' = DOMAIN cache \ {last'.arg}
                  /\ \A k \in DOMAIN cache' : cache'[k] = cache[k]
             ELSE cache' = cache
       /\ (now' = now /\ last'.op = "builtin.keys") =>
             /\ cache' = cache
             /\ (last'.arg = <<>> /\ ~last'.threw) => last'.ret = DOMAIN cache]_vars

\* C33: a run of the background sweep removes every entry whose expiresAt has
\* passed (the clock is strictly after it) and leaves every other entry as
\* it was; whether the sweep can run depends on nothing but the interval
\* timer being set, not on the entries or their ttl; close() clears the timer
\* and no sweep runs from then on.
C33_SweepRemovesExpiredOnly ==
    /\ [](ENABLED StoreSweep <=> sweepOn)
    /\ [][/\ (now' = now /\ last'.op = "builtin.sweep") =>
                /\ sweepOn
                /\ DOMAIN cache' = {k \in DOMAIN cache : ~(now > cache[k].expiresAt)}
                /\ \A k \in DOMAIN cache' : cache'[k] = cache[k]
                /\ last'.keysToDelete = DOMAIN cache \ DOMAIN cache'
          /\ (now' = now /\ last'.op = "builtin.close") => ~sweepOn'
          /\ ~sweepOn => ~sweepOn']_vars

\* a sweep has just removed an expired entry and kept a live one
C33_Witness ==
    /\ last.op = "builtin.sweep"
    /\ last.keysToDelete # {}
    /\ \E k \in DOMAIN cache : now < cache[k].expiresAt
    /\ sweepOn

\* C34: BuiltinCacheProvider.close() never fails, clears the interval timer
\* and empties the store; called on a provider whose timer is already
\* cleared and whose store is empty it changes nothing of the provider, and
\* applied again to the store it produced it yields that same store.
C34_BuiltinCloseIdempotent ==
    [][(now' = now /\ last'.op = "builtin.close") =>
          /\ ~last'.threw
          /\ ~sweepOn'
          /\ cache' = EmptyMap
          /\ (~sweepOn /\ cache = EmptyMap) =>
                UNCHANGED <<cache, sweepOn, defaultTtl, now>>
          /\ ~BuiltinClose(cache').threw
          /\ BuiltinClose(cache').cache = cache']_vars

\* close() has returned on a provider whose timer an earlier close() had
\* already cleared
C34_Witness ==
    /\ last.op = "builtin.close"
    /\ ~last.cleanupInterval
    /\ ~last.threw
    /\ cache = EmptyMap
    /\ ~sweepOn

\* C35: with the domain operations of one user issued one at a time, a
\* getContract served from the cache returns the contract as it stands
\* remotely after the latest successful mutating operation (addContract,
\* updateContractSubscription, write evaluation, revertEvaluation).
C35_CacheHitIsCurrentContract ==
    [][\A s \in Slots :
          (/\ calls'[s] # calls[s]
           /\ calls'[s].kind = "getContract"
           /\ calls'[s].pc = "returned"
           /\ calls'[s].reply = None)
              => calls'[s].result[1].value = ContractAt(currentUser, remoteVersion)]_vars

\* C36: once updateContractSubscription(u) has returned with caching enabled,
\* the cache holds no contract entry and no feature-evaluation entry of u
\* that was fetched from the remote state preceding the update, whether or
\* not getContract(u) or read-only evaluate(u, f) calls were in flight
\* during the update.
C36_NoPreUpdateEntryAfterUpdate ==
    \A s \in Slots :
        (/\ calls[s].kind = "updateContractSubscription"
         /\ calls[s].pc = "returned"
         /\ isEnabled)
            => \A key \in {getContractKey(currentUser)} \cup
                          {getFeatureKey(currentUser, f) : f \in DomainFeatures} :
                   getFullKey(key) \in DOMAIN cache
                       => cache[getFullKey(key)].value.version
                              >= calls[s].result[1].value.version

\* C37: operations issued concurrently on a provider that is not connected
\* share one store client: the operations that await a connection await the
\* same client, and every client the provider has created is either the
\* provider's current client or has been ended.
C37_NoOrphanedClient ==
    /\ \A s, t \in Slots :
          (ops[s].pc = "connecting" /\ ops[t].pc = "connecting")
              => ops[s].cl = ops[t].cl
    /\ \A c \in DOMAIN clients : c = client \/ clients[c].status = "closed"

\* C38: in every reachable state of RedisCacheProvider, connected = true
\* implies that the client handle is not null.
C38_ConnectedImpliesClient == connected => client # 0

\* C39: when close() returns without an error raised inside it, from
\* whatever state it was called in (connected, never connected, or holding a
\* client whose connection an error or disconnect event has marked down),
\* the provider holds no client handle, is marked not connected, and the
\* client it held has been ended.
C39_CloseReleasesClient ==
    [][\A s \in Slots :
          (/\ ops'[s].op = "close"
           /\ ops'[s].pc = "returned"
           /\ ops[s].pc # "returned" \/ ops[s].op # "close"
           /\ ops'[s].cause = ""
           /\ client # 0 \/ ~connected)
              => /\ client' = 0
                 /\ ~connected'
                 /\ client # 0 => clients'[client].status = "closed"]_vars

\* C40: a callback registered with on() is invoked when its event arrives,
\* also after disconnect() followed by connect(): when the connection is
\* established the 'synchronized' callback runs, and a pricing message runs
\* the callback registered for its code.
C40_CallbacksSurviveReconnect ==
    [][/\ (last'.op = "socket.connect"
           /\ ~pricingSocketNamespace.connected
           /\ pricingSocketNamespace'.connected
           /\ <<"synchronized", "lower">> \in DOMAIN callBackFunctions)
             => last'.invoked = {callBackFunctions[<<"synchronized", "lower">>]}
       /\ (last'.op = "socket.message"
           /\ toLowerCase(last'.arg) \in DOMAIN callBackFunctions)
             => last'.invoked = {callBackFunctions[toLowerCase(last'.arg)]}]_vars

====
